---- MODULE Spec2Model ----
(***************************************************************************)
(* Timer engine of K-Food-Timer (src/modules/timer_module.py): Timer,      *)
(* TimerQueue and StepTimer, with the threads that execute them.           *)
(*                                                                         *)
(* The code takes no lock anywhere, so every method is modelled statement  *)
(* by statement: a thread is a stack of frames, a frame's pc names the     *)
(* source line it is about to execute ("start_89" is line 89 of            *)
(* Timer.start), and one step of an action executes that line.  Thread 0   *)
(* is the caller (the application); threads 1..MaxLoops are the daemon     *)
(* threads running Timer._run_timer.  Callbacks run synchronously on the   *)
(* thread that fires them, as nested frames.                               *)
(*                                                                         *)
(* Time is the integer clock `now`, in ticks of 1/TicksPerSec second.      *)
(***************************************************************************)
EXTENDS Integers, Sequences, FiniteSets, TLC

VARIABLES
    now,        \* time.time(), in ticks
    timers,     \* Timer objects: id -> fields
    queue,      \* the TimerQueue object
    step,       \* the StepTimer object
    threads,    \* thread id -> call stack (<<>>: not running)
    log,        \* calls received by the external (application) callback
    call,       \* the operation the caller is executing: its name and the
                \* status it was called in
    last,       \* the caller's last finished operation (as call) and its result
    ops,        \* number of operations the caller has issued
    atPause     \* history: remaining time of each timer when it was last paused

vars == <<now, timers, queue, step, threads, log, call, last, ops, atPause>>

----------------------------------------------------------------------------
(* Bounds of the model *)

TicksPerSec == 2     \* clock resolution: ticks per second
MaxTime     == 2     \* the clock stops here
MaxQueueTime == 1    \* ... and here when the caller operates a TimerQueue
MaxDuration == 1     \* Timer durations are 0..MaxDuration seconds
MaxOps      == 3     \* operations the caller issues on a Timer in one run
MaxQueueOps == 2     \* operations the caller issues on a TimerQueue in one run
MaxLoops    == 2     \* daemon threads alive at once
MaxCycles   == 2     \* pause/resume cycles of SpecCycle
QueueSize   == 2     \* timers a TimerQueue holds at first
MaxAdded    == 1     \* timers added to it later
MaxScriptOps == 3   \* calls made on the scripted queue
MaxSnapTime == 3    \* the clock stops here when snapshots are restored

(* Program constants *)

PollTenths  == 1     \* _stop_event.wait(0.1): the poll interval, in 0.1 s

----------------------------------------------------------------------------
(* TimerStatus *)

READY     == "ready"
RUNNING   == "running"
PAUSED    == "paused"
COMPLETED == "completed"
CANCELLED == "cancelled"

Terminal == {COMPLETED, CANCELLED}

----------------------------------------------------------------------------
(* Threads and frames *)

Caller  == 0
Loops   == 1..MaxLoops
Threads == {Caller} \cup Loops

\* a frame: pc = next source line, t = self (a timer id) or an argument,
\* s = a status argument, i = an integer local, r = result of the last call
Frame(pc, t, s, i) == [pc |-> pc, t |-> t, s |-> s, i |-> i, r |-> FALSE]

Top(st) == st[Len(st)]

WithPc(st, pc) == [st EXCEPT ![Len(st)].pc = pc]

\* call: the caller frame continues at retpc when the callee returns
Pushed(st, retpc, fr) == Append(WithPc(st, retpc), fr)

Front(st) == SubSeq(st, 1, Len(st) - 1)

\* Lines that only call _start_next_timer and return its result (390, 455):
\* a frame that arrives there has made the call
Settle(st) ==
    IF st # <<>> /\ Top(st).pc \in {"qstart_390", "skip_455"}
    THEN Pushed(st, IF Top(st).pc = "qstart_390" THEN "qstart_ret" ELSE "skip_ret",
                Frame("next_501", 0, "", 0))
    ELSE st

\* Lines that only return: the result of the call just made, True, or
\* False/None.  A frame waiting at such a line returns as soon as its callee
\* does (nothing shared is touched in between).
ReturnsResult == {"next_518", "qstart_ret", "skip_ret"}
ReturnsTrue   == {"pause_134", "cancel_162", "qpause_412", "qresume_436",
                  "qcancel_476", "remove_359"}
ReturnsFalse  == {"run_212", "next_512", "changed_492"}

\* st: the stack below a frame that returns val
RECURSIVE Unwind(_, _)
Unwind(st, val) ==
    IF st = <<>> THEN [st |-> st, val |-> val]
    ELSE IF Top(st).pc \in ReturnsResult THEN Unwind(Front(st), val)
    ELSE IF Top(st).pc \in ReturnsTrue THEN Unwind(Front(st), TRUE)
    ELSE IF Top(st).pc \in ReturnsFalse THEN Unwind(Front(st), FALSE)
    ELSE IF Top(st).pc = "changed_491" /\ queue.cb = "none"
         THEN Unwind(Front(st), FALSE)
    ELSE [st |-> Settle([st EXCEPT ![Len(st)].r = val]), val |-> val]

\* the lines that call self.callback: of a Timer (107, 131, 159, 210) and of
\* a TimerQueue (386, 409, 433, 473, 356, 509, 491)
TimerCallbackPcs == {"start_107", "pause_131", "cancel_159", "run_210"}
QueueCallbackPcs == {"qstart_386", "qpause_409", "qresume_433", "qcancel_473",
                     "remove_356", "next_509", "changed_491"}

\* the timer_id a queue callback is called with at the line of frame f (0 is
\* None)
CallbackTimerId(f) ==
    IF f.pc \in {"changed_491", "qpause_409", "qresume_433"} THEN f.t ELSE 0

\* callbacks of the application: "user" records the event; "failing" records
\* it and raises an exception, every time; "failing_for_2" does so when it is
\* called with the id of timer 2 and is "user" otherwise
UserCallbacks == {"user", "failing", "failing_for_2"}

\* thread th is about to call a callback that raises
WillRaise(th) ==
    /\ threads[th] # <<>>
    /\ LET f == Top(threads[th]) IN
       \/ f.pc \in TimerCallbackPcs /\ timers[f.t].cb = "failing"
       \/ /\ f.pc \in QueueCallbackPcs
          /\ \/ queue.cb = "failing"
             \/ queue.cb = "failing_for_2" /\ CallbackTimerId(f) = 2

At(th, pcs) ==
    threads[th] # <<>> /\ Top(threads[th]).pc \in pcs /\ ~WillRaise(th)

Goto(th, pc) == threads' = [threads EXCEPT ![th] = Settle(WithPc(@, pc))]

\* what `last` becomes when thread th has unwound to u
Finished(th, u) ==
    IF th = Caller /\ u.st = <<>>
    THEN [op |-> call.op, res |-> u.val, from |-> call.from, exc |-> FALSE,
          seen |-> <<>>]
    ELSE last

\* return val
Ret(th, val) ==
    LET u == Unwind(Front(threads[th]), val) IN
    /\ threads' = [threads EXCEPT ![th] = u.st]
    /\ last' = Finished(th, u)

\* an exception nobody catches unwinds the whole stack of the thread
Raise(th) ==
    /\ threads' = [threads EXCEPT ![th] = <<>>]
    /\ last' = IF th = Caller
               THEN [op |-> call.op, res |-> FALSE, from |-> call.from,
                     exc |-> TRUE, seen |-> <<>>]
               ELSE last

\* threads running Timer._run_timer of timer t
LoopsOf(t) == {th \in Loops : threads[th] # <<>> /\ threads[th][1].t = t}

Event(k, t, s) == [k |-> k, t |-> t, s |-> s]

----------------------------------------------------------------------------
(* Timer: pure parts *)

\* int(x) of a float given in ticks: whole seconds, truncated toward zero
IntSec(x) == IF x >= 0 THEN x \div TicksPerSec ELSE -((-x) \div TicksPerSec)

Max(a, b) == IF a >= b THEN a ELSE b

\* Timer.get_remaining_time
get_remaining_time(t) ==
    LET T == timers[t] IN
    IF T.status = READY THEN T.duration
    ELSE IF T.status \in {COMPLETED, CANCELLED} THEN 0
    ELSE IF T.status = PAUSED THEN IntSec(T.end_time - T.paused_time)
    ELSE Max(0, IntSec(T.end_time - now))

\* a float result: the fraction num / den, or exc when the call raised
Float(num, den) == [exc |-> FALSE, num |-> num, den |-> den]

ZeroDivisionError == [exc |-> TRUE, num |-> 0, den |-> 1]

\* Timer.get_progress_percentage: min(100.0, (elapsed / duration) * 100.0)
\* outside READY and COMPLETED, whatever the duration
get_progress_percentage(t) ==
    LET T == timers[t]
        elapsed == T.duration - get_remaining_time(t)
    IN
    IF T.status = READY THEN Float(0, 1)
    ELSE IF T.status = COMPLETED THEN Float(100, 1)
    ELSE IF T.duration = 0 THEN ZeroDivisionError
    ELSE IF elapsed >= T.duration THEN Float(100, 1)
    ELSE Float(elapsed * 100, T.duration)

\* Timer.to_dict: the snapshot (a dict: key -> value), or exc when building it
\* raised
to_dict(t) ==
    LET T == timers[t] IN
    [exc |-> get_progress_percentage(t).exc,
     timer_id |-> T.timer_id, product_id |-> T.product_id,
     product_name |-> T.product_name,
     duration |-> T.duration, start_time |-> T.start_time,
     end_time |-> T.end_time, paused_time |-> T.paused_time,
     elapsed_pause_time |-> T.elapsed_pause_time, status |-> T.status,
     remaining_time |-> get_remaining_time(t),
     progress |-> get_progress_percentage(t)]

\* Timer.__init__; id is the value uuid4() gives
TimerInit(id, product_id, product_name, d, cb) ==
    [timer_id |-> id, product_id |-> product_id, product_name |-> product_name,
     duration |-> d, start_time |-> 0, end_time |-> 0, paused_time |-> 0,
     elapsed_pause_time |-> 0, status |-> READY, stop |-> FALSE, cb |-> cb]

\* a Timer whose identity and product play no part in what is checked
NewTimer(d, cb) == TimerInit(0, "product_1", "name_1", d, cb)

----------------------------------------------------------------------------
(* if self.callback: self.callback(self.timer_id, self.status)             *)
(* The status handed over is the one the field holds when the call is made.*)
(* FireTimerCallback continues at line k afterwards; FireTimerCallbackRet   *)
(* is the callback as the method's last statement before `return val` (k is *)
(* the line of that return).                                                *)

\* the frames of _timer_status_changed(timer_id, status): at line 487 it calls
\* _start_next_timer when status is COMPLETED, then goes on at line 491
Handler(st, t, s) ==
    IF s = COMPLETED
    THEN st \o <<Frame("changed_491", t, s, 0), Frame("next_501", 0, "", 0)>>
    ELSE Append(st, Frame("changed_491", t, s, 0))

\* _timer_status_changed has nothing to do: neither line 487 nor line 490
Idle(t, s) == timers[t].cb = "queue" /\ queue.cb = "none" /\ s # COMPLETED

FireTimerCallback(th, t, k) ==
    LET s == timers[t].status IN
    CASE timers[t].cb = "user" ->
            /\ log' = Append(log, Event("timer", t, s))
            /\ Goto(th, k)
      [] timers[t].cb = "queue" /\ ~Idle(t, s) ->
            /\ log' = log
            /\ threads' = [threads EXCEPT
                             ![th] = Handler(WithPc(@, k), t, s)]
      [] OTHER ->
            /\ log' = log
            /\ Goto(th, k)

FireTimerCallbackRet(th, t, k, val) ==
    LET s == timers[t].status IN
    CASE timers[t].cb = "user" ->
            /\ log' = Append(log, Event("timer", t, s))
            /\ Ret(th, val)
      [] timers[t].cb = "queue" /\ ~Idle(t, s) ->
            /\ log' = log
            /\ last' = last
            /\ threads' = [threads EXCEPT
                             ![th] = Handler(WithPc(@, k), t, s)]
      [] OTHER ->
            /\ log' = log
            /\ Ret(th, val)

\* the callback raises: nothing in the Timer, the TimerQueue or the StepTimer
\* catches the exception, which ends the thread's call there (the callback
\* has been called: the event is logged)
CallbackRaises(th) ==
    /\ WillRaise(th)
    /\ LET f == Top(threads[th]) IN
       log' = Append(log,
                IF f.pc \in TimerCallbackPcs
                THEN Event("timer", f.t, timers[f.t].status)
                ELSE Event("queue", CallbackTimerId(f), queue.status))
    /\ Raise(th)
    /\ UNCHANGED <<now, timers, queue, step, call, ops, atPause>>

----------------------------------------------------------------------------
(* Timer.start (resume() is `return self.start()`) *)

\* the local pause_duration of line 98 (0 when that branch is not taken)
pause_duration(T) == IF T.status = PAUSED THEN now - T.paused_time ELSE 0

\* mutant of StartTimestamps: resuming does not move end_time
StartTimestampsNoShift(T) ==
    IF T.status = READY
    THEN [T EXCEPT !.start_time = now,
                   !.end_time = now + T.duration * TicksPerSec,
                   !.elapsed_pause_time = 0]
    ELSE IF T.status = PAUSED
    THEN [T EXCEPT !.elapsed_pause_time = @ + pause_duration(T)]
    ELSE T

StartTimestamps(T) ==
    IF T.status = READY
    THEN [T EXCEPT !.start_time = now,
                   !.end_time = now + T.duration * TicksPerSec,
                   !.elapsed_pause_time = 0]
    ELSE IF T.status = PAUSED
    THEN [T EXCEPT !.elapsed_pause_time = @ + pause_duration(T),
                   !.end_time = @ + pause_duration(T)]
    ELSE T

\* threading.Thread(target=self._run_timer).start()
FreeLoop == CHOOSE th \in Loops : threads[th] = <<>> /\
                \A o \in Loops : threads[o] = <<>> => th <= o

TimerStart(th) ==
    /\ At(th, {"start_89", "start_92", "start_103", "start_104", "start_107",
               "start_111"})
    /\ LET pc == Top(threads[th]).pc
           t  == Top(threads[th]).t
       IN
       CASE pc = "start_89" ->
               /\ IF timers[t].status # READY /\ timers[t].status # PAUSED
                  THEN Ret(th, FALSE)
                  ELSE Goto(th, "start_92") /\ last' = last
               /\ UNCHANGED <<now, timers, queue, step, log, call, ops, atPause>>
         [] pc = "start_92" ->
               /\ timers' = [timers EXCEPT ![t] = StartTimestamps(@)]
               /\ threads' = [threads EXCEPT ![th] =
                      [@ EXCEPT ![Len(@)].pc = "start_103",
                                ![Len(@)].i = pause_duration(timers[t])]]
               /\ UNCHANGED <<now, queue, step, log, call, last, ops, atPause>>
         [] pc = "start_103" ->
               /\ timers' = [timers EXCEPT ![t].status = RUNNING]
               /\ Goto(th, "start_104")
               /\ UNCHANGED <<now, queue, step, log, call, last, ops, atPause>>
         [] pc = "start_104" ->
               /\ timers' = [timers EXCEPT ![t].stop = FALSE]
               /\ Goto(th, "start_107")
               /\ UNCHANGED <<now, queue, step, log, call, last, ops, atPause>>
         [] pc = "start_107" ->
               /\ FireTimerCallback(th, t, "start_111")
               /\ UNCHANGED <<now, timers, queue, step, call, last, ops, atPause>>
         [] pc = "start_111" ->
               /\ \E o \in Loops : threads[o] = <<>>
               /\ LET u == Unwind(Front(threads[th]), TRUE) IN
                  /\ threads' = [threads EXCEPT
                        ![th] = u.st,
                        ![FreeLoop] = <<Frame("run_203", t, "", 0)>>]
                  /\ last' = Finished(th, u)
               /\ UNCHANGED <<now, timers, queue, step, log, call, ops, atPause>>


----------------------------------------------------------------------------
(* Timer.pause *)

TimerPause(th) ==
    /\ At(th, {"pause_124", "pause_127", "pause_128", "pause_131"})
    /\ LET pc == Top(threads[th]).pc
           t  == Top(threads[th]).t
       IN
       CASE pc = "pause_124" ->
               /\ IF timers[t].status # RUNNING
                  THEN Ret(th, FALSE)
                  ELSE Goto(th, "pause_127") /\ last' = last
               /\ UNCHANGED <<now, timers, queue, step, log, call, ops, atPause>>
         [] pc = "pause_127" ->
               /\ timers' = [timers EXCEPT ![t].status = PAUSED]
               /\ Goto(th, "pause_128")
               /\ UNCHANGED <<now, queue, step, log, call, last, ops, atPause>>
         [] pc = "pause_128" ->
               /\ timers' = [timers EXCEPT ![t].paused_time = now]
               /\ atPause' = [atPause EXCEPT ![t] = Max(0, IntSec(timers[t].end_time - now))]
               /\ Goto(th, "pause_131")
               /\ UNCHANGED <<now, queue, step, log, call, last, ops>>
         [] pc = "pause_131" ->
               /\ FireTimerCallbackRet(th, t, "pause_134", TRUE)
               /\ UNCHANGED <<now, timers, queue, step, call, ops, atPause>>


----------------------------------------------------------------------------
(* Timer.cancel *)

TimerCancel(th) ==
    /\ At(th, {"cancel_152", "cancel_155", "cancel_156", "cancel_159"})
    /\ LET pc == Top(threads[th]).pc
           t  == Top(threads[th]).t
       IN
       CASE pc = "cancel_152" ->
               /\ IF timers[t].status = COMPLETED \/ timers[t].status = CANCELLED
                  THEN Ret(th, FALSE)
                  ELSE Goto(th, "cancel_155") /\ last' = last
               /\ UNCHANGED <<now, timers, queue, step, log, call, ops, atPause>>
         [] pc = "cancel_155" ->
               /\ timers' = [timers EXCEPT ![t].status = CANCELLED]
               /\ Goto(th, "cancel_156")
               /\ UNCHANGED <<now, queue, step, log, call, last, ops, atPause>>
         [] pc = "cancel_156" ->
               /\ timers' = [timers EXCEPT ![t].stop = TRUE]
               /\ Goto(th, "cancel_159")
               /\ UNCHANGED <<now, queue, step, log, call, last, ops, atPause>>
         [] pc = "cancel_159" ->
               /\ FireTimerCallbackRet(th, t, "cancel_162", TRUE)
               /\ UNCHANGED <<now, timers, queue, step, call, ops, atPause>>


----------------------------------------------------------------------------
(* Timer._run_timer: the background loop *)

\* _stop_event.wait(0.1).  A poll interval shorter than a tick can time out
\* at any moment; one of a tick or more (entered at tick w) has timed out only
\* when the clock has moved.  WaitStart is what the wait remembers.
ShortPoll == PollTenths * TicksPerSec < 10

WaitStart == IF ShortPoll THEN 0 ELSE now

WaitTimedOut(w) == ShortPoll \/ 10 * (now - w + 1) > PollTenths * TicksPerSec

\* mutant of Expired: a remaining time of 0 does not complete the timer
ExpiredBelowZero(t) == get_remaining_time(t) < 0

\* remaining = self.get_remaining_time(); if remaining <= 0:
Expired(t) == get_remaining_time(t) <= 0

RunTimer(th) ==
    /\ At(th, {"run_203", "run_205", "run_209", "run_210", "run_215"})
    /\ LET pc == Top(threads[th]).pc
           t  == Top(threads[th]).t
       IN
       CASE pc = "run_203" ->
               /\ IF timers[t].status = RUNNING
                  THEN Goto(th, "run_205") /\ last' = last
                  ELSE Ret(th, FALSE)
               /\ UNCHANGED <<now, timers, queue, step, log, call, ops, atPause>>
         [] pc = "run_205" ->
               /\ IF Expired(t)
                  THEN Goto(th, "run_209")
                  ELSE threads' = [threads EXCEPT ![th] =
                         [@ EXCEPT ![Len(@)].pc = "run_215", ![Len(@)].i = WaitStart]]
               /\ UNCHANGED <<now, timers, queue, step, log, call, last, ops, atPause>>
         [] pc = "run_209" ->
               /\ timers' = [timers EXCEPT ![t].status = COMPLETED]
               /\ Goto(th, "run_210")
               /\ UNCHANGED <<now, queue, step, log, call, last, ops, atPause>>
         [] pc = "run_210" ->
               /\ FireTimerCallbackRet(th, t, "run_212", FALSE)
               /\ UNCHANGED <<now, timers, queue, step, call, ops, atPause>>
         [] pc = "run_215" ->
               /\ IF timers[t].stop
                  THEN Ret(th, FALSE)
                  ELSE /\ WaitTimedOut(Top(threads[th]).i)
                       /\ Goto(th, "run_203")
                       /\ last' = last
               /\ UNCHANGED <<now, timers, queue, step, log, call, ops, atPause>>

----------------------------------------------------------------------------
(* Timer.from_dict(data, callback) (frame: t = the Timer being built,       *)
(* data = the snapshot, cb = the callback)                                   *)

TimerStatusValues == {READY, RUNNING, PAUSED, COMPLETED, CANCELLED}

\* the keys read at lines 252-262
TimerKeys == {"product_id", "product_name", "duration", "timer_id",
              "start_time", "end_time", "paused_time", "elapsed_pause_time",
              "status"}

\* data[key] raises KeyError, or TimerStatus(data["status"]) raises ValueError
Unreadable(data) ==
    \/ ~(TimerKeys \subseteq DOMAIN data)
    \/ data.status \notin TimerStatusValues

\* lines 251-262: the Timer made by cls(...), then given the snapshot's fields
FromSnapshot(id, data, cb) ==
    [TimerInit(id, data.product_id, data.product_name, data.duration, cb)
        EXCEPT !.timer_id = data.timer_id,
               !.start_time = data.start_time,
               !.end_time = data.end_time,
               !.paused_time = data.paused_time,
               !.elapsed_pause_time = data.elapsed_pause_time,
               !.status = data.status]

FromDictFrame(t, data, cb) ==
    [pc |-> "from_251", t |-> t, s |-> "", i |-> 0, r |-> FALSE,
     data |-> data, cb |-> cb]

\* mutant of EndTimePassed: the end_time is never taken as passed
EndTimeNeverPassed(T) == FALSE

\* line 267: time.time() > timer.end_time
EndTimePassed(T) == now > T.end_time

FromDict(th) ==
    /\ At(th, {"from_251", "from_265", "from_270"})
    /\ LET f  == Top(threads[th])
           pc == f.pc
           t  == f.t
       IN
       CASE pc = "from_251" ->
               /\ IF Unreadable(f.data)
                  THEN Raise(th) /\ timers' = timers
                  ELSE /\ timers' = [timers EXCEPT
                                       ![t] = FromSnapshot(t, f.data, f.cb)]
                       /\ Goto(th, "from_265")
                       /\ last' = last
               /\ UNCHANGED <<now, queue, step, log, call, ops, atPause>>
         [] pc = "from_265" ->
               /\ IF timers[t].status # RUNNING
                  THEN Ret(th, TRUE) /\ timers' = timers
                  ELSE IF EndTimePassed(timers[t])
                  THEN /\ timers' = [timers EXCEPT ![t].status = COMPLETED]
                       /\ Ret(th, TRUE)
                  ELSE /\ timers' = timers
                       /\ Goto(th, "from_270")
                       /\ last' = last
               /\ UNCHANGED <<now, queue, step, log, call, ops, atPause>>
         [] pc = "from_270" ->
               /\ \E o \in Loops : threads[o] = <<>>
               /\ timers' = [timers EXCEPT ![t].stop = FALSE]
               /\ LET u == Unwind(Front(threads[th]), TRUE) IN
                  /\ threads' = [threads EXCEPT
                        ![th] = u.st,
                        ![FreeLoop] = <<Frame("run_203", t, "", 0)>>]
                  /\ last' = Finished(th, u)
               /\ UNCHANGED <<now, queue, step, log, call, ops, atPause>>

----------------------------------------------------------------------------
(* TimerQueue: pure parts *)

QLen == Len(queue.timers)

\* Python's list[i]: a negative i counts from the end
InRange(i) == -QLen <= i /\ i < QLen

PyIndex(i) == IF i >= 0 THEN queue.timers[i + 1] ELSE queue.timers[QLen + i + 1]

\* TimerQueue.get_current_timer: a timer id, or 0 for None
get_current_timer ==
    IF queue.current_index >= 0 /\ queue.current_index < QLen
    THEN queue.timers[queue.current_index + 1]
    ELSE 0

\* sum(f[1], ..., f[n]); 0 when n <= 0, as a loop over range(n) that never runs
RECURSIVE SumTo(_, _)
SumTo(f, n) == IF n <= 0 THEN 0 ELSE f[n] + SumTo(f, n - 1)

\* timer.duration for timer in self.timers
Durations == [i \in 1..QLen |-> timers[queue.timers[i]].duration]

IndexError == [exc |-> TRUE, num |-> 0, den |-> 1]

\* TimerQueue.get_remaining_time: that of the current timer, or 0
queue_get_remaining_time ==
    IF get_current_timer # 0 THEN get_remaining_time(get_current_timer) ELSE 0

\* the test of line 552 on the position i (from 0) of a timer
SkipsCurrentToo(i) == i > queue.current_index
FromCurrentOn(i) == i >= queue.current_index

\* TimerQueue.get_total_remaining_time: the remaining times of the timers at
\* positions i >= current_index
get_total_remaining_time ==
    SumTo([i \in 1..QLen |->
              IF FromCurrentOn(i - 1)
              THEN get_remaining_time(queue.timers[i]) ELSE 0], QLen)

\* StepTimer.get_remaining_time: return self.timer_queue.get_total_remaining_time()
step_get_remaining_time == get_total_remaining_time

\* TimerQueue.get_progress_percentage
queue_get_progress_percentage ==
    LET total_duration == SumTo(Durations, QLen)
        current_timer == get_current_timer
        before == SumTo(Durations, queue.current_index)
        elapsed == IF current_timer # 0
                   THEN timers[current_timer].duration
                          - get_remaining_time(current_timer)
                   ELSE 0
        completed_duration == before + elapsed
    IN
    IF QLen = 0 THEN Float(0, 1)
    ELSE IF total_duration <= 0 THEN Float(0, 1)
    ELSE IF queue.current_index > QLen THEN IndexError
    ELSE IF completed_duration >= total_duration THEN Float(100, 1)
    ELSE Float(completed_duration * 100, total_duration)

----------------------------------------------------------------------------
(* if self.callback: self.callback(self.queue_id, self.status, timer_id),  *)
(* as the last statement before `return val` at line k (tid 0 is None)     *)

\* StepTimer._queue_status_changed(queue_id, status, timer_id): the branch
\* its arguments select at lines 818 and 830 ("" when neither)
StepBranch(tid, s) ==
    IF tid # 0 /\ s = RUNNING THEN "qchanged_820"
    ELSE IF s = COMPLETED THEN "qchanged_831"
    ELSE ""

FireQueueCallbackRet(th, tid, k, val) ==
    LET s == queue.status IN
    CASE queue.cb \in UserCallbacks ->
            /\ log' = Append(log, Event("queue", tid, s))
            /\ Ret(th, val)
      [] queue.cb = "step" /\ StepBranch(tid, s) # "" ->
            /\ log' = log
            /\ last' = last
            /\ threads' = [threads EXCEPT
                  ![th] = Pushed(@, k, Frame(StepBranch(tid, s), tid, s, 0))]
      [] OTHER ->
            /\ log' = log
            /\ Ret(th, val)

FireQueueCallback(th, tid, k) ==
    LET s == queue.status IN
    CASE queue.cb \in UserCallbacks ->
            /\ log' = Append(log, Event("queue", tid, s))
            /\ Goto(th, k)
      [] queue.cb = "step" /\ StepBranch(tid, s) # "" ->
            /\ log' = log
            /\ threads' = [threads EXCEPT
                  ![th] = Pushed(@, k, Frame(StepBranch(tid, s), tid, s, 0))]
      [] OTHER ->
            /\ log' = log
            /\ Goto(th, k)

\* `if self.callback:` is false for a queue made without a callback: the
\* method goes on at line k2, or returns val, instead of stopping at line k
SkipCallback(k, k2) == IF queue.cb = "none" THEN k2 ELSE k

GotoCallbackRet(th, k, val) ==
    IF queue.cb = "none" THEN Ret(th, val) ELSE Goto(th, k) /\ last' = last

\* a method's `return <result of the call just made>`
RetResult(th) == Ret(th, Top(threads[th]).r)

\* current_timer = self.timers[self.current_index], then continue at line k
LoadCurrentTimer(th, k) ==
    IF InRange(queue.current_index)
    THEN /\ threads' = [threads EXCEPT ![th] =
               [@ EXCEPT ![Len(@)].pc = k,
                         ![Len(@)].t = PyIndex(queue.current_index)]]
         /\ last' = last
    ELSE Raise(th)

\* self.timers[self.current_index].<method>(), then continue at line k
LoadCurrentTimerAndCall(th, k, entry) ==
    IF InRange(queue.current_index)
    THEN /\ threads' = [threads EXCEPT ![th] =
               Pushed([@ EXCEPT ![Len(@)].t = PyIndex(queue.current_index)], k,
                      Frame(entry, PyIndex(queue.current_index), "", 0))]
         /\ last' = last
    ELSE Raise(th)

----------------------------------------------------------------------------
(* TimerQueue._start_next_timer *)

StartNextTimer(th) ==
    /\ At(th, {"next_501", "next_501w", "next_504", "next_505", "next_506",
               "next_509", "next_515"})
    /\ LET pc == Top(threads[th]).pc
           f  == Top(threads[th])
       IN
       CASE pc = "next_501" ->      \* self.current_index += 1: the read
               /\ threads' = [threads EXCEPT ![th] =
                      [@ EXCEPT ![Len(@)].pc = "next_501w",
                                ![Len(@)].i = queue.current_index]]
               /\ UNCHANGED <<now, timers, queue, step, log, call, last, ops, atPause>>
         [] pc = "next_501w" ->     \* ... and the write
               /\ queue' = [queue EXCEPT !.current_index = f.i + 1]
               /\ Goto(th, "next_504")
               /\ UNCHANGED <<now, timers, step, log, call, last, ops, atPause>>
         [] pc = "next_504" ->
               /\ IF queue.current_index >= QLen
                  THEN Goto(th, "next_505")
                  ELSE Goto(th, "next_515")
               /\ UNCHANGED <<now, timers, queue, step, log, call, last, ops, atPause>>
         [] pc = "next_505" ->
               /\ queue' = [queue EXCEPT !.current_index = -1]
               /\ Goto(th, "next_506")
               /\ UNCHANGED <<now, timers, step, log, call, last, ops, atPause>>
         [] pc = "next_506" ->
               /\ queue' = [queue EXCEPT !.status = COMPLETED]
               /\ GotoCallbackRet(th, "next_509", FALSE)
               /\ UNCHANGED <<now, timers, step, log, call, ops, atPause>>
         [] pc = "next_509" ->
               /\ FireQueueCallbackRet(th, 0, "next_512", FALSE)
               /\ UNCHANGED <<now, timers, queue, step, call, ops, atPause>>
         [] pc = "next_515" ->      \* self.timers[self.current_index].start()
               /\ LoadCurrentTimerAndCall(th, "next_518", "start_89")
               /\ UNCHANGED <<now, timers, queue, step, log, call, ops, atPause>>

----------------------------------------------------------------------------
(* TimerQueue._timer_status_changed(timer_id, status): the callback of     *)
(* every timer of the queue (frame: t = timer_id, s = status)              *)

TimerStatusChanged(th) ==
    /\ At(th, {"changed_491"})
    /\ LET pc == Top(threads[th]).pc
           f  == Top(threads[th])
       IN
       CASE pc = "changed_491" ->
               /\ FireQueueCallbackRet(th, f.t, "changed_492", FALSE)
               /\ UNCHANGED <<now, timers, queue, step, call, ops, atPause>>


----------------------------------------------------------------------------
(* TimerQueue.start *)

\* lines 378-380: every timer of the queue back to READY
ResetTimers ==
    [t \in DOMAIN timers |->
        IF \E k \in 1..QLen : queue.timers[k] = t
        THEN [timers[t] EXCEPT !.status = READY]
        ELSE timers[t]]

QueueStart(th) ==
    /\ At(th, {"qstart_370", "qstart_377", "qstart_381", "qstart_383",
               "qstart_386"})
    /\ LET pc == Top(threads[th]).pc IN
       CASE pc = "qstart_370" ->
               /\ IF QLen = 0 \/ queue.status = RUNNING
                  THEN Ret(th, FALSE)
                  ELSE Goto(th, "qstart_377") /\ last' = last
               /\ UNCHANGED <<now, timers, queue, step, log, call, ops, atPause>>
         [] pc = "qstart_377" ->
               /\ IF queue.status = COMPLETED \/ queue.status = CANCELLED
                  THEN timers' = ResetTimers /\ Goto(th, "qstart_381")
                  ELSE timers' = timers /\ Goto(th, "qstart_383")
               /\ UNCHANGED <<now, queue, step, log, call, last, ops, atPause>>
         [] pc = "qstart_381" ->
               /\ queue' = [queue EXCEPT !.current_index = -1]
               /\ Goto(th, "qstart_383")
               /\ UNCHANGED <<now, timers, step, log, call, last, ops, atPause>>
         [] pc = "qstart_383" ->
               /\ queue' = [queue EXCEPT !.status = RUNNING]
               /\ Goto(th, SkipCallback("qstart_386", "qstart_390"))
               /\ UNCHANGED <<now, timers, step, log, call, last, ops, atPause>>
         [] pc = "qstart_386" ->
               /\ FireQueueCallback(th, 0, "qstart_390")
               /\ UNCHANGED <<now, timers, queue, step, call, last, ops, atPause>>


----------------------------------------------------------------------------
(* TimerQueue.pause and TimerQueue.resume (frame: t = current_timer)       *)

QueuePause(th) ==
    /\ At(th, {"qpause_399", "qpause_402", "qpause_403", "qpause_405",
               "qpause_409"})
    /\ LET pc == Top(threads[th]).pc
           f  == Top(threads[th])
       IN
       CASE pc = "qpause_399" ->
               /\ IF queue.status # RUNNING \/ queue.current_index < 0
                  THEN Ret(th, FALSE)
                  ELSE Goto(th, "qpause_402") /\ last' = last
               /\ UNCHANGED <<now, timers, queue, step, log, call, ops, atPause>>
         [] pc = "qpause_402" ->
               /\ LoadCurrentTimer(th, "qpause_403")
               /\ UNCHANGED <<now, timers, queue, step, log, call, ops, atPause>>
         [] pc = "qpause_403" ->
               /\ IF timers[f.t].status = RUNNING
                  THEN /\ threads' = [threads EXCEPT ![th] =
                             Pushed(@, "qpause_405", Frame("pause_124", f.t, "", 0))]
                       /\ last' = last
                  ELSE Ret(th, FALSE)
               /\ UNCHANGED <<now, timers, queue, step, log, call, ops, atPause>>
         [] pc = "qpause_405" ->
               /\ IF f.r
                  THEN /\ queue' = [queue EXCEPT !.status = PAUSED]
                       /\ GotoCallbackRet(th, "qpause_409", TRUE)
                  ELSE /\ queue' = queue
                       /\ Ret(th, FALSE)
               /\ UNCHANGED <<now, timers, step, log, call, ops, atPause>>
         [] pc = "qpause_409" ->
               /\ FireQueueCallbackRet(th, f.t, "qpause_412", TRUE)
               /\ UNCHANGED <<now, timers, queue, step, call, ops, atPause>>


QueueResume(th) ==
    /\ At(th, {"qresume_423", "qresume_426", "qresume_427", "qresume_429",
               "qresume_433"})
    /\ LET pc == Top(threads[th]).pc
           f  == Top(threads[th])
       IN
       CASE pc = "qresume_423" ->
               /\ IF queue.status # PAUSED \/ queue.current_index < 0
                  THEN Ret(th, FALSE)
                  ELSE Goto(th, "qresume_426") /\ last' = last
               /\ UNCHANGED <<now, timers, queue, step, log, call, ops, atPause>>
         [] pc = "qresume_426" ->
               /\ LoadCurrentTimer(th, "qresume_427")
               /\ UNCHANGED <<now, timers, queue, step, log, call, ops, atPause>>
         [] pc = "qresume_427" ->
               /\ IF timers[f.t].status = PAUSED
                  THEN /\ threads' = [threads EXCEPT ![th] =
                             Pushed(@, "qresume_429", Frame("start_89", f.t, "", 0))]
                       /\ last' = last
                  ELSE Ret(th, FALSE)
               /\ UNCHANGED <<now, timers, queue, step, log, call, ops, atPause>>
         [] pc = "qresume_429" ->
               /\ IF f.r
                  THEN /\ queue' = [queue EXCEPT !.status = RUNNING]
                       /\ GotoCallbackRet(th, "qresume_433", TRUE)
                  ELSE /\ queue' = queue
                       /\ Ret(th, FALSE)
               /\ UNCHANGED <<now, timers, step, log, call, ops, atPause>>
         [] pc = "qresume_433" ->
               /\ FireQueueCallbackRet(th, f.t, "qresume_436", TRUE)
               /\ UNCHANGED <<now, timers, queue, step, call, ops, atPause>>


----------------------------------------------------------------------------
(* TimerQueue.skip_current *)

QueueSkipCurrent(th) ==
    /\ At(th, {"skip_447", "skip_451"})
    /\ LET pc == Top(threads[th]).pc
           f  == Top(threads[th])
       IN
       CASE pc = "skip_447" ->
               /\ IF queue.current_index < 0 \/ queue.current_index >= QLen
                  THEN Ret(th, FALSE)
                  ELSE Goto(th, "skip_451") /\ last' = last
               /\ UNCHANGED <<now, timers, queue, step, log, call, ops, atPause>>
         [] pc = "skip_451" ->      \* current timer .cancel()
               /\ LoadCurrentTimerAndCall(th, "skip_455", "cancel_152")
               /\ UNCHANGED <<now, timers, queue, step, log, call, ops, atPause>>


----------------------------------------------------------------------------
(* TimerQueue.cancel *)

QueueCancel(th) ==
    /\ At(th, {"qcancel_465", "qcancel_466", "qcancel_469",
               "qcancel_470", "qcancel_473"})
    /\ LET pc == Top(threads[th]).pc
           f  == Top(threads[th])
       IN
       CASE pc = "qcancel_465" ->
               /\ IF queue.current_index >= 0 /\ queue.current_index < QLen
                  THEN Goto(th, "qcancel_466")
                  ELSE Goto(th, "qcancel_469")
               /\ UNCHANGED <<now, timers, queue, step, log, call, last, ops, atPause>>
         [] pc = "qcancel_466" ->   \* current timer .cancel()
               /\ LoadCurrentTimerAndCall(th, "qcancel_469", "cancel_152")
               /\ UNCHANGED <<now, timers, queue, step, log, call, ops, atPause>>
         [] pc = "qcancel_469" ->
               /\ queue' = [queue EXCEPT !.status = CANCELLED]
               /\ Goto(th, "qcancel_470")
               /\ UNCHANGED <<now, timers, step, log, call, last, ops, atPause>>
         [] pc = "qcancel_470" ->
               /\ queue' = [queue EXCEPT !.current_index = -1]
               /\ GotoCallbackRet(th, "qcancel_473", TRUE)
               /\ UNCHANGED <<now, timers, step, log, call, ops, atPause>>
         [] pc = "qcancel_473" ->
               /\ FireQueueCallbackRet(th, 0, "qcancel_476", TRUE)
               /\ UNCHANGED <<now, timers, queue, step, call, ops, atPause>>


----------------------------------------------------------------------------
(* TimerQueue.add_timer_from_product and TimerQueue.remove_timer           *)
(* (frame: t = the timer, i = the duration or the timer's index)           *)

RemoveAt(seq, k) == SubSeq(seq, 1, k - 1) \o SubSeq(seq, k + 1, Len(seq))

\* for i, timer in enumerate(self.timers): if timer.timer_id == timer_id
IndexOf(tid) ==
    IF \E k \in 1..QLen : queue.timers[k] = tid
    THEN (CHOOSE k \in 1..QLen : queue.timers[k] = tid) - 1
    ELSE -1

\* self.timers.append(timer)
Prepended(seq, t) == <<t>> \o seq
Appended(seq, t) == Append(seq, t)

\* add_timer (lines 313-314) and add_timer_from_product (lines 328-329)
QueueAddTimer(th) ==
    /\ At(th, {"add_313", "add_314", "add_328", "add_329"})
    /\ LET pc == Top(threads[th]).pc
           f  == Top(threads[th])
       IN
       CASE pc = "add_313" ->
               /\ timers' = [timers EXCEPT ![f.t].cb = "queue"]
               /\ Goto(th, "add_314")
               /\ UNCHANGED <<now, queue, step, log, call, last, ops, atPause>>
         [] pc = "add_314" ->
               /\ queue' = [queue EXCEPT !.timers = Appended(@, f.t)]
               /\ Ret(th, TRUE)
               /\ UNCHANGED <<now, timers, step, log, call, ops, atPause>>
         [] pc = "add_328" ->
               /\ timers' = [timers EXCEPT ![f.t] = NewTimer(f.i, "queue")]
               /\ Goto(th, "add_329")
               /\ UNCHANGED <<now, queue, step, log, call, last, ops, atPause>>
         [] pc = "add_329" ->
               /\ queue' = [queue EXCEPT !.timers = Appended(@, f.t)]
               /\ Ret(th, TRUE)
               /\ UNCHANGED <<now, timers, step, log, call, ops, atPause>>


QueueRemoveTimer(th) ==
    /\ At(th, {"remove_342", "remove_345", "remove_348", "remove_351",
               "remove_354", "remove_355", "remove_356"})
    /\ LET pc == Top(threads[th]).pc
           f  == Top(threads[th])
       IN
       CASE pc = "remove_342" ->
               /\ IF IndexOf(f.t) >= 0
                  THEN /\ threads' = [threads EXCEPT ![th] =
                             [@ EXCEPT ![Len(@)].pc = "remove_345",
                                       ![Len(@)].i = IndexOf(f.t)]]
                       /\ last' = last
                  ELSE Ret(th, FALSE)
               /\ UNCHANGED <<now, timers, queue, step, log, call, ops, atPause>>
         [] pc = "remove_345" ->
               /\ IF f.i = queue.current_index /\ timers[f.t].status = RUNNING
                  THEN threads' = [threads EXCEPT ![th] =
                         Pushed(@, "remove_348", Frame("cancel_152", f.t, "", 0))]
                  ELSE Goto(th, "remove_351")
               /\ UNCHANGED <<now, timers, queue, step, log, call, last, ops, atPause>>
         [] pc = "remove_348" ->
               /\ queue' = IF f.i = QLen - 1
                           THEN [queue EXCEPT !.current_index = -1]
                           ELSE queue
               /\ Goto(th, "remove_351")
               /\ UNCHANGED <<now, timers, step, log, call, last, ops, atPause>>
         [] pc = "remove_351" ->    \* self.timers.pop(i)
               /\ IF f.i < QLen
                  THEN /\ queue' = [queue EXCEPT !.timers = RemoveAt(@, f.i + 1)]
                       /\ Goto(th, "remove_354")
                       /\ last' = last
                  ELSE /\ queue' = queue
                       /\ Raise(th)
               /\ UNCHANGED <<now, timers, step, log, call, ops, atPause>>
         [] pc = "remove_354" ->
               /\ IF QLen = 0
                  THEN Goto(th, "remove_355") /\ last' = last
                  ELSE Ret(th, TRUE)
               /\ UNCHANGED <<now, timers, queue, step, log, call, ops, atPause>>
         [] pc = "remove_355" ->
               /\ queue' = [queue EXCEPT !.status = COMPLETED]
               /\ GotoCallbackRet(th, "remove_356", TRUE)
               /\ UNCHANGED <<now, timers, step, log, call, ops, atPause>>
         [] pc = "remove_356" ->
               /\ FireQueueCallbackRet(th, 0, "remove_359", TRUE)
               /\ UNCHANGED <<now, timers, queue, step, call, ops, atPause>>


----------------------------------------------------------------------------
(* StepTimer.start and StepTimer._queue_status_changed.  A step event is    *)
(* Event("step", index, status): the description handed to the callback is *)
(* steps[index]'s (lines 684, 823), or "" with index -1 (line 834).        *)

StepTimerStart(th) ==
    /\ At(th, {"sstart_679", "sstart_683"})
    /\ LET pc == Top(threads[th]).pc
           f  == Top(threads[th])
       IN
       CASE pc = "sstart_679" ->    \* ... and line 680 calls timer_queue.start()
               /\ step' = [step EXCEPT !.current_step = 0]
               /\ threads' = [threads EXCEPT ![th] =
                      Pushed(@, "sstart_683", Frame("qstart_370", 0, "", 0))]
               /\ UNCHANGED <<now, timers, queue, log, call, last, ops, atPause>>
         [] pc = "sstart_683" ->
               /\ log' = IF f.r THEN Append(log, Event("step", 0, RUNNING)) ELSE log
               /\ Ret(th, f.r)
               /\ UNCHANGED <<now, timers, queue, step, call, ops, atPause>>

\* StepTimer.pause and StepTimer.resume: the queue's method is called, then
\* the step callback when it succeeded and a step is current
StepTimerPauseResume(th) ==
    /\ At(th, {"spause_696", "spause_699", "sresume_712", "sresume_715"})
    /\ LET pc == Top(threads[th]).pc
           f  == Top(threads[th])
       IN
       CASE pc = "spause_696" ->
               /\ threads' = [threads EXCEPT ![th] =
                      Pushed(@, "spause_699", Frame("qpause_399", 0, "", 0))]
               /\ UNCHANGED <<now, timers, queue, step, log, call, last, ops,
                              atPause>>
         [] pc = "sresume_712" ->
               /\ threads' = [threads EXCEPT ![th] =
                      Pushed(@, "sresume_715", Frame("qresume_423", 0, "", 0))]
               /\ UNCHANGED <<now, timers, queue, step, log, call, last, ops,
                              atPause>>
         [] pc \in {"spause_699", "sresume_715"} ->
               /\ log' = IF f.r /\ step.current_step >= 0
                         THEN Append(log, Event("step", step.current_step,
                                 IF pc = "spause_699" THEN PAUSED ELSE RUNNING))
                         ELSE log
               /\ Ret(th, f.r)
               /\ UNCHANGED <<now, timers, queue, step, call, ops, atPause>>

\* StepTimer.cancel
StepTimerCancel(th) ==
    /\ At(th, {"scancel_728", "scancel_731", "scancel_734"})
    /\ LET pc == Top(threads[th]).pc
           f  == Top(threads[th])
       IN
       CASE pc = "scancel_728" ->
               /\ threads' = [threads EXCEPT ![th] =
                      Pushed(@, "scancel_731", Frame("qcancel_465", 0, "", 0))]
               /\ UNCHANGED <<now, timers, queue, step, log, call, last, ops,
                              atPause>>
         [] pc = "scancel_731" ->
               /\ log' = IF f.r THEN Append(log, Event("step", -1, CANCELLED))
                         ELSE log
               /\ Goto(th, "scancel_734")
               /\ UNCHANGED <<now, timers, queue, step, call, last, ops, atPause>>
         [] pc = "scancel_734" ->
               /\ step' = [step EXCEPT !.current_step = -1]
               /\ Ret(th, f.r)
               /\ UNCHANGED <<now, timers, queue, log, call, ops, atPause>>

\* StepTimer.skip_step
StepTimerSkipStep(th) ==
    /\ At(th, {"sskip_744", "sskip_747", "sskip_750", "sskip_752"})
    /\ LET pc == Top(threads[th]).pc
           f  == Top(threads[th])
       IN
       CASE pc = "sskip_744" ->
               /\ IF step.current_step < 0 \/ step.current_step >= step.n
                  THEN Ret(th, FALSE)
                  ELSE Goto(th, "sskip_747") /\ last' = last
               /\ UNCHANGED <<now, timers, queue, step, log, call, ops, atPause>>
         [] pc = "sskip_747" ->
               /\ threads' = [threads EXCEPT ![th] =
                      Pushed(@, "sskip_750", Frame("skip_447", 0, "", 0))]
               /\ UNCHANGED <<now, timers, queue, step, log, call, last, ops,
                              atPause>>
         [] pc = "sskip_750" ->
               /\ IF f.r
                  THEN Ret(th, TRUE) /\ step' = step
                  ELSE /\ step' = [step EXCEPT !.current_step = -1]
                       /\ Goto(th, "sskip_752")
                       /\ last' = last
               /\ UNCHANGED <<now, timers, queue, log, call, ops, atPause>>
         [] pc = "sskip_752" ->
               /\ log' = Append(log, Event("step", -1, COMPLETED))
               /\ Ret(th, TRUE)
               /\ UNCHANGED <<now, timers, queue, step, call, ops, atPause>>

\* StepTimer.from_dict assigns self.timer_queue when TimerQueue.from_dict has
\* returned (line 878); until then it is the queue made by __init__
Assigning ==
    threads[Caller] # <<>> /\ threads[Caller][1].pc = "sfrom_883"

\* self.timer_queue.current_index
StepQueueIndex == IF Assigning THEN -1 ELSE queue.current_index

QueueStatusChanged(th) ==
    /\ At(th, {"qchanged_820", "qchanged_822", "qchanged_826", "qchanged_831",
               "qchanged_834"})
    /\ LET pc == Top(threads[th]).pc
           f  == Top(threads[th])
       IN
       CASE pc = "qchanged_820" ->
               /\ IF 0 <= StepQueueIndex /\ StepQueueIndex < step.n
                  THEN /\ threads' = [threads EXCEPT ![th] =
                             [@ EXCEPT ![Len(@)].pc = "qchanged_822",
                                       ![Len(@)].i = StepQueueIndex]]
                       /\ last' = last
                  ELSE Ret(th, FALSE)
               /\ UNCHANGED <<now, timers, queue, step, log, call, ops, atPause>>
         [] pc = "qchanged_822" ->
               /\ step' = [step EXCEPT !.current_step = f.i]
               /\ Goto(th, "qchanged_826")
               /\ UNCHANGED <<now, timers, queue, log, call, last, ops, atPause>>
         [] pc = "qchanged_826" ->
               /\ log' = Append(log, Event("step", f.i, RUNNING))
               /\ Ret(th, FALSE)
               /\ UNCHANGED <<now, timers, queue, step, call, ops, atPause>>
         [] pc = "qchanged_831" ->
               /\ step' = [step EXCEPT !.current_step = -1]
               /\ Goto(th, "qchanged_834")
               /\ UNCHANGED <<now, timers, queue, log, call, last, ops, atPause>>
         [] pc = "qchanged_834" ->
               /\ log' = Append(log, Event("step", -1, COMPLETED))
               /\ Ret(th, FALSE)
               /\ UNCHANGED <<now, timers, queue, step, call, ops, atPause>>

----------------------------------------------------------------------------
(* TimerQueue.from_dict(data, callback) and StepTimer.from_dict(data,       *)
(* callback) (frame: data = the snapshot, cb = the callback, i = the number *)
(* of timers rebuilt so far; the k-th timer rebuilt is timer k)             *)

QueueKeys == {"name", "queue_id", "current_index", "status", "timers"}

StepKeys == {"product_id", "product_name", "steps", "step_timer_id",
             "current_step", "timer_queue"}

\* lines 613-619 raise KeyError or ValueError
QueueUnreadable(data) ==
    \/ ~(QueueKeys \subseteq DOMAIN data)
    \/ data.status \notin TimerStatusValues

FromDictFrameOf(pc, data, cb) ==
    [pc |-> pc, t |-> 0, s |-> "", i |-> 0, r |-> FALSE, data |-> data,
     cb |-> cb]

QueueFromDict(th) ==
    /\ At(th, {"qfrom_613", "qfrom_619", "qfrom_621"})
    /\ LET f  == Top(threads[th])
           pc == f.pc
       IN
       CASE pc = "qfrom_613" ->
               /\ IF QueueUnreadable(f.data)
                  THEN Raise(th) /\ queue' = queue
                  ELSE /\ queue' = [timers |-> <<>>,
                                    current_index |-> f.data.current_index,
                                    status |-> f.data.status, cb |-> f.cb]
                       /\ Goto(th, "qfrom_619")
                       /\ last' = last
               /\ UNCHANGED <<now, timers, step, log, call, ops, atPause>>
         [] pc = "qfrom_619" ->
               /\ IF f.i < Len(f.data.timers)
                  THEN /\ threads' = [threads EXCEPT ![th] =
                             Pushed(@, "qfrom_621",
                                    FromDictFrame(f.i + 1, f.data.timers[f.i + 1],
                                                  "queue"))]
                       /\ last' = last
                  ELSE Ret(th, TRUE)
               /\ UNCHANGED <<now, timers, queue, step, log, call, ops, atPause>>
         [] pc = "qfrom_621" ->
               /\ queue' = [queue EXCEPT !.timers = Append(@, f.i + 1)]
               /\ threads' = [threads EXCEPT ![th] =
                      [@ EXCEPT ![Len(@)].pc = "qfrom_619",
                                ![Len(@)].i = f.i + 1]]
               /\ UNCHANGED <<now, timers, step, log, call, last, ops, atPause>>

StepFromDict(th) ==
    /\ At(th, {"sfrom_868", "sfrom_883"})
    /\ LET f  == Top(threads[th])
           pc == f.pc
       IN
       CASE pc = "sfrom_868" ->
               /\ IF ~(StepKeys \subseteq DOMAIN f.data)
                  THEN Raise(th) /\ step' = step
                  ELSE /\ step' = [current_step |-> f.data.current_step,
                                   n |-> Len(f.data.steps)]
                       /\ threads' = [threads EXCEPT ![th] =
                             Pushed(@, "sfrom_883",
                                    FromDictFrameOf("qfrom_613",
                                                    f.data.timer_queue, "step"))]
                       /\ last' = last
               /\ UNCHANGED <<now, timers, queue, log, call, ops, atPause>>
         [] pc = "sfrom_883" ->
               /\ Ret(th, TRUE)
               /\ UNCHANGED <<now, timers, queue, step, log, call, ops, atPause>>

----------------------------------------------------------------------------
(* The clock *)

TickTo(bound) ==
    /\ now < bound
    /\ now' = now + 1
    /\ UNCHANGED <<timers, queue, step, threads, log, call, last, ops, atPause>>

Tick == TickTo(MaxTime)

QueueTick == TickTo(MaxQueueTime)

----------------------------------------------------------------------------
(* A standalone Timer driven by the application *)

NoQueue == [timers |-> <<>>, current_index |-> -1, status |-> READY,
            cb |-> "none"]
NoStep  == [current_step |-> -1, n |-> 0]
NoCall  == [op |-> "none", from |-> READY]
NoLast  == [op |-> "none", res |-> FALSE, from |-> READY, exc |-> FALSE,
            seen |-> <<>>]

TimerEntry == [start |-> "start_89", resume |-> "start_89",
               pause |-> "pause_124", cancel |-> "cancel_152"]

\* the application calls timer.start() / pause() / resume() / cancel()
CallTimer(op) ==
    /\ threads[Caller] = <<>>
    /\ ops < MaxOps
    /\ ops' = ops + 1
    /\ call' = [op |-> op, from |-> timers[1].status]
    /\ threads' = [threads EXCEPT ![Caller] = <<Frame(TimerEntry[op], 1, "", 0)>>]
    /\ UNCHANGED <<now, timers, queue, step, log, last, atPause>>

InitTimer ==
    /\ now = 0
    /\ \E d \in 0..MaxDuration : timers = [t \in {1} |-> NewTimer(d, "user")]
    /\ queue = NoQueue
    /\ step = NoStep
    /\ threads = [th \in Threads |-> <<>>]
    /\ log = <<>>
    /\ call = NoCall
    /\ last = NoLast
    /\ ops = 0
    /\ atPause = [t \in {1} |-> 0]

NextTimer ==
    \/ \E op \in {"start", "pause", "resume", "cancel"} : CallTimer(op)
    \/ \E th \in Threads : TimerStart(th)
    \/ \E th \in Threads : TimerPause(th)
    \/ \E th \in Threads : TimerCancel(th)
    \/ \E th \in Loops : RunTimer(th)
    \/ Tick

SpecTimer == InitTimer /\ [][NextTimer]_vars

----------------------------------------------------------------------------
(* A standalone Timer that the application starts and then pauses and      *)
(* resumes, MaxCycles times, at any moments it likes                       *)

CycleOp == IF ops = 0 THEN "start" ELSE IF ops % 2 = 1 THEN "pause" ELSE "resume"

CallCycle ==
    /\ threads[Caller] = <<>>
    /\ ops < 1 + 2 * MaxCycles
    /\ ops' = ops + 1
    /\ call' = [op |-> CycleOp, from |-> timers[1].status]
    /\ threads' = [threads EXCEPT
                     ![Caller] = <<Frame(TimerEntry[CycleOp], 1, "", 0)>>]
    /\ UNCHANGED <<now, timers, queue, step, log, last, atPause>>

NextCycle ==
    \/ CallCycle
    \/ \E th \in Threads : TimerStart(th)
    \/ \E th \in Threads : TimerPause(th)
    \/ \E th \in Loops : RunTimer(th)
    \/ Tick

SpecCycle == InitTimer /\ [][NextCycle]_vars

----------------------------------------------------------------------------
(* A TimerQueue driven by the application.  It holds timers 1..QueueSize,  *)
(* made by add_timer_from_product; timers above that are not made yet.     *)

TimerIds == 1..(QueueSize + MaxAdded)

Unborn == NewTimer(0, "none")

Iota(n) == [k \in 1..n |-> k]

QueueEntry == [start |-> "qstart_370", pause |-> "qpause_399",
               resume |-> "qresume_423", skip_current |-> "skip_447",
               cancel |-> "qcancel_465"]

\* queue.start() / pause() / resume() / skip_current() / cancel()
CallQueue(op) ==
    /\ threads[Caller] = <<>>
    /\ ops < MaxQueueOps
    /\ ops' = ops + 1
    /\ call' = [op |-> op, from |-> queue.status]
    /\ threads' = [threads EXCEPT ![Caller] = <<Frame(QueueEntry[op], 0, "", 0)>>]
    /\ UNCHANGED <<now, timers, queue, step, log, last, atPause>>

\* queue.add_timer_from_product(..., duration=d)
CallAddTimer(d) ==
    /\ threads[Caller] = <<>>
    /\ ops < MaxQueueOps
    /\ \E t \in TimerIds : timers[t] = Unborn /\ IndexOf(t) < 0
    /\ LET t == CHOOSE t \in TimerIds :
                   /\ timers[t] = Unborn /\ IndexOf(t) < 0
                   /\ \A o \in TimerIds :
                         timers[o] = Unborn /\ IndexOf(o) < 0 => t <= o
       IN threads' = [threads EXCEPT ![Caller] = <<Frame("add_328", t, "", d)>>]
    /\ ops' = ops + 1
    /\ call' = [op |-> "add_timer_from_product", from |-> queue.status]
    /\ UNCHANGED <<now, timers, queue, step, log, last, atPause>>

\* the id of the next Timer object the application makes
NextTimerId ==
    CHOOSE t \in TimerIds :
       /\ timers[t] = Unborn /\ IndexOf(t) < 0
       /\ \A o \in TimerIds : timers[o] = Unborn /\ IndexOf(o) < 0 => t <= o

\* timer = Timer(..., duration=d, callback=its own); queue.add_timer(timer)
CallAddTimerObject(d) ==
    /\ threads[Caller] = <<>>
    /\ ops < MaxQueueOps
    /\ \E t \in TimerIds : timers[t] = Unborn /\ IndexOf(t) < 0
    /\ timers' = [timers EXCEPT ![NextTimerId] = NewTimer(d, "user")]
    /\ threads' = [threads EXCEPT ![Caller] =
                      <<Frame("add_313", NextTimerId, "", d)>>]
    /\ ops' = ops + 1
    /\ call' = [op |-> "add_timer", from |-> queue.status]
    /\ UNCHANGED <<now, queue, step, log, last, atPause>>

\* queue.remove_timer(timer_id) with the id of a timer of the queue
CallRemoveTimer(t) ==
    /\ threads[Caller] = <<>>
    /\ ops < MaxQueueOps
    /\ IndexOf(t) >= 0
    /\ ops' = ops + 1
    /\ call' = [op |-> "remove_timer", from |-> queue.status]
    /\ threads' = [threads EXCEPT ![Caller] = <<Frame("remove_342", t, "", 0)>>]
    /\ UNCHANGED <<now, timers, queue, step, log, last, atPause>>

\* a queue made with callback cb to which timers 1..n have been added, their
\* durations one of D
InitQueueOf(n, D, cb) ==
    /\ now = 0
    /\ \E d \in D :
          timers = [t \in TimerIds |->
                      IF t <= n THEN NewTimer(d[t], "queue") ELSE Unborn]
    /\ queue = [timers |-> Iota(n), current_index |-> -1,
                status |-> READY, cb |-> cb]
    /\ step = IF cb = "step" THEN [current_step |-> -1, n |-> n] ELSE NoStep
    /\ threads = [th \in Threads |-> <<>>]
    /\ log = <<>>
    /\ call = NoCall
    /\ last = NoLast
    /\ ops = 0
    /\ atPause = [t \in TimerIds |-> 0]

InitQueue == InitQueueOf(QueueSize, [1..QueueSize -> 0..MaxDuration], "none")

\* statements executed by whichever thread has reached them
Engine ==
    \/ \E th \in Threads : TimerStart(th)
    \/ \E th \in Threads : TimerPause(th)
    \/ \E th \in Threads : TimerCancel(th)
    \/ \E th \in Loops : RunTimer(th)
    \/ \E th \in Threads : StartNextTimer(th)
    \/ \E th \in Threads : QueueStart(th)
    \/ \E th \in Threads : QueuePause(th)
    \/ \E th \in Threads : QueueResume(th)
    \/ \E th \in Threads : QueueSkipCurrent(th)
    \/ \E th \in Threads : QueueCancel(th)

NextQueue ==
    \/ \E op \in DOMAIN QueueEntry : CallQueue(op)
    \/ \E d \in 0..MaxDuration : CallAddTimer(d)
    \/ \E d \in 0..MaxDuration : CallAddTimerObject(d)
    \/ \E t \in TimerIds : CallRemoveTimer(t)
    \/ Engine
    \/ \E th \in Threads : QueueAddTimer(th)
    \/ \E th \in Threads : QueueRemoveTimer(th)
    \/ QueueTick

SpecQueue == InitQueue /\ [][NextQueue]_vars

----------------------------------------------------------------------------
(* A TimerQueue of QueueSize + MaxAdded timers of one duration on which the *)
(* application calls start / pause / resume / skip_current / cancel only    *)

InitQueueOps ==
    InitQueueOf(QueueSize + MaxAdded,
                {[t \in 1..(QueueSize + MaxAdded) |-> d] : d \in 0..MaxDuration},
                "none")

NextQueueOps ==
    \/ \E op \in DOMAIN QueueEntry : CallQueue(op)
    \/ Engine
    \/ QueueTick

SpecQueueOps == InitQueueOps /\ [][NextQueueOps]_vars

----------------------------------------------------------------------------
(* A TimerQueue that the application starts and then leaves alone.  As in  *)
(* the test (test_timer_module.py:154-157) it reads current_index when      *)
(* start() has returned; ReadIndex is that read made at once, before the    *)
(* clock has moved since the first timer was started.                       *)

CallStart ==
    /\ ops = 0
    /\ CallQueue("start")

ReadIndex ==
    /\ threads[Caller] = <<>>
    /\ last.op = "start" /\ last.seen = <<>>
    /\ timers[queue.timers[1]].start_time = now
    /\ last' = [last EXCEPT !.seen = <<queue.current_index>>]
    /\ UNCHANGED <<now, timers, queue, step, threads, log, call, ops, atPause>>

\* what runs when nothing but start() is called
RunEngine ==
    \/ \E th \in Threads : TimerStart(th)
    \/ \E th \in Loops : RunTimer(th)
    \/ \E th \in Threads : StartNextTimer(th)
    \/ \E th \in Threads : TimerStatusChanged(th)
    \/ \E th \in Threads : QueueStart(th)

InitQueueRun == InitQueueOf(QueueSize, [1..QueueSize -> 0..MaxDuration], "user")

NextQueueRun ==
    \/ CallStart
    \/ ReadIndex
    \/ RunEngine
    \/ Tick

SpecQueueRun == InitQueueRun /\ [][NextQueueRun]_vars

----------------------------------------------------------------------------
(* A StepTimer of QueueSize steps that the application starts and then      *)
(* leaves alone                                                             *)

CallStepStart ==
    /\ threads[Caller] = <<>>
    /\ ops = 0
    /\ ops' = ops + 1
    /\ call' = [op |-> "start", from |-> queue.status]
    /\ threads' = [threads EXCEPT ![Caller] = <<Frame("sstart_679", 0, "", 0)>>]
    /\ UNCHANGED <<now, timers, queue, step, log, last, atPause>>

InitStepRun == InitQueueOf(QueueSize, [1..QueueSize -> 0..MaxDuration], "step")

NextStepRun ==
    \/ CallStepStart
    \/ RunEngine
    \/ \E th \in Threads : StepTimerStart(th)
    \/ \E th \in Threads : QueueStatusChanged(th)
    \/ Tick

SpecStepRun == InitStepRun /\ [][NextStepRun]_vars

----------------------------------------------------------------------------
(* A TimerQueue with a callback on which the application makes the calls   *)
(* of a script, at most MaxScriptOps of them, at any moments it likes      *)

\* op is the next call of one of the scripts S: `ops` calls have been made,
\* the last one call.op
Scripted(S, op) ==
    /\ threads[Caller] = <<>>
    /\ ops < MaxScriptOps
    /\ \E sc \in S :
          /\ Len(sc) > ops
          /\ sc[ops + 1] = op
          /\ (ops >= 1 => sc[ops] = call.op)

CallScript(S, op) ==
    /\ Scripted(S, op)
    /\ ops' = ops + 1
    /\ call' = [op |-> op, from |-> queue.status]
    /\ threads' = [threads EXCEPT ![Caller] = <<Frame(QueueEntry[op], 0, "", 0)>>]
    /\ UNCHANGED <<now, timers, queue, step, log, last, atPause>>

CallScriptRemove(S, t) ==
    /\ Scripted(S, "remove_timer")
    /\ IndexOf(t) >= 0
    /\ ops' = ops + 1
    /\ call' = [op |-> "remove_timer", from |-> queue.status]
    /\ threads' = [threads EXCEPT ![Caller] = <<Frame("remove_342", t, "", 0)>>]
    /\ UNCHANGED <<now, timers, queue, step, log, last, atPause>>

\* the timers of the scripted queue have positive durations
InitScript == InitQueueOf(QueueSize, [1..QueueSize -> 1..MaxDuration], "none")

\* the queue is started and, while it runs or after a cancel(), started again
RestartScripts == {<<"start", "start">>, <<"start", "cancel", "start">>}

NextRestart ==
    \/ \E op \in DOMAIN QueueEntry : CallScript(RestartScripts, op)
    \/ \E th \in Threads : TimerStart(th)
    \/ \E th \in Threads : TimerCancel(th)
    \/ \E th \in Loops : RunTimer(th)
    \/ \E th \in Threads : StartNextTimer(th)
    \/ \E th \in Threads : QueueStart(th)
    \/ \E th \in Threads : QueueCancel(th)
    \/ QueueTick

SpecRestart == InitScript /\ [][NextRestart]_vars

\* the queue is started and then, running or paused, started again, resumed,
\* skipped, cancelled or relieved of a timer; or its timers are removed one
\* by one
PausedScripts ==
    {<<"start", "pause", "start">>, <<"start", "pause", "resume">>,
     <<"start", "pause", "skip_current">>, <<"start", "pause", "remove_timer">>,
     <<"start", "pause", "cancel">>, <<"start", "skip_current">>, <<"start", "remove_timer">>,
     <<"remove_timer", "remove_timer">>}

NextPaused ==
    \/ \E op \in DOMAIN QueueEntry : CallScript(PausedScripts, op)
    \/ \E t \in TimerIds : CallScriptRemove(PausedScripts, t)
    \/ Engine
    \/ \E th \in Threads : QueueRemoveTimer(th)
    \/ QueueTick

SpecPaused == InitScript /\ [][NextPaused]_vars

----------------------------------------------------------------------------
(* A TimerQueue to which the application adds a timer when the queue is    *)
(* READY, RUNNING, PAUSED, CANCELLED or COMPLETED                          *)

AddScripts ==
    {<<"add_timer">>, <<"start", "add_timer_from_product">>,
     <<"start", "pause", "add_timer">>,
     <<"start", "cancel", "add_timer_from_product">>,
     <<"start", "add_timer">>}

CallScriptAdd(S, d) ==
    /\ Scripted(S, "add_timer_from_product")
    /\ ops' = ops + 1
    /\ call' = [op |-> "add_timer_from_product", from |-> queue.status]
    /\ threads' = [threads EXCEPT ![Caller] =
                      <<Frame("add_328", NextTimerId, "", d)>>]
    /\ UNCHANGED <<now, timers, queue, step, log, last, atPause>>

CallScriptAddObject(S, d) ==
    /\ Scripted(S, "add_timer")
    /\ ops' = ops + 1
    /\ call' = [op |-> "add_timer", from |-> queue.status]
    /\ timers' = [timers EXCEPT ![NextTimerId] = NewTimer(d, "user")]
    /\ threads' = [threads EXCEPT ![Caller] =
                      <<Frame("add_313", NextTimerId, "", d)>>]
    /\ UNCHANGED <<now, queue, step, log, last, atPause>>

NextAdd ==
    \/ \E op \in DOMAIN QueueEntry : CallScript(AddScripts, op)
    \/ \E d \in 0..MaxDuration : CallScriptAdd(AddScripts, d)
    \/ \E d \in 0..MaxDuration : CallScriptAddObject(AddScripts, d)
    \/ \E th \in Threads : TimerStart(th)
    \/ \E th \in Threads : TimerPause(th)
    \/ \E th \in Threads : TimerCancel(th)
    \/ \E th \in Loops : RunTimer(th)
    \/ \E th \in Threads : StartNextTimer(th)
    \/ \E th \in Threads : QueueStart(th)
    \/ \E th \in Threads : QueuePause(th)
    \/ \E th \in Threads : QueueCancel(th)
    \/ \E th \in Threads : QueueAddTimer(th)
    \/ TickTo(MaxTime)

SpecAdd == InitScript /\ [][NextAdd]_vars

----------------------------------------------------------------------------
(* A Timer, or a TimerQueue, whose callback raises an exception, started    *)
(* once and then left alone ("user" is the callback that does not raise)    *)

InitFailingTimer ==
    /\ now = 0
    /\ \E d \in 0..MaxDuration : \E cb \in {"user", "failing"} :
          timers = [t \in {1} |-> NewTimer(d, cb)]
    /\ queue = NoQueue
    /\ step = NoStep
    /\ threads = [th \in Threads |-> <<>>]
    /\ log = <<>>
    /\ call = NoCall
    /\ last = NoLast
    /\ ops = 0
    /\ atPause = [t \in {1} |-> 0]

InitFailingQueue ==
    \E cb \in UserCallbacks :
       InitQueueOf(QueueSize, [1..QueueSize -> 0..MaxDuration], cb)

\* timer.start(), or queue.start()
CallFailingStart ==
    /\ threads[Caller] = <<>>
    /\ ops = 0
    /\ ops' = ops + 1
    /\ call' = [op |-> "start",
                from |-> IF queue = NoQueue THEN timers[1].status
                         ELSE queue.status]
    /\ threads' = [threads EXCEPT ![Caller] =
                      IF queue = NoQueue
                      THEN <<Frame("start_89", 1, "", 0)>>
                      ELSE <<Frame("qstart_370", 0, "", 0)>>]
    /\ UNCHANGED <<now, timers, queue, step, log, last, atPause>>

NextFailing ==
    \/ CallFailingStart
    \/ RunEngine
    \/ \E th \in Threads : CallbackRaises(th)
    \/ Tick

SpecFailing == (InitFailingTimer \/ InitFailingQueue) /\ [][NextFailing]_vars

----------------------------------------------------------------------------
(* A TimerQueue with a callback of the application on which the            *)
(* application calls start and then pause, resume or cancel, within the     *)
(* first second (the clock does not move); the call remembers how many      *)
(* events had been delivered when it was made                               *)

ForwardScripts ==
    {<<"start", "pause", "resume">>, <<"start", "pause", "cancel">>,
     <<"start", "cancel">>}

CallForwardScript(op) ==
    /\ Scripted(ForwardScripts, op)
    /\ ops' = ops + 1
    /\ call' = [op |-> op, from |-> queue.status, logged |-> Len(log)]
    /\ threads' = [threads EXCEPT ![Caller] = <<Frame(QueueEntry[op], 0, "", 0)>>]
    /\ UNCHANGED <<now, timers, queue, step, log, last, atPause>>

InitForward == InitQueueOf(QueueSize, [1..QueueSize -> 1..MaxDuration], "user")

NextForward ==
    \/ \E op \in DOMAIN QueueEntry : CallForwardScript(op)
    \/ \E th \in Threads : TimerStart(th)
    \/ \E th \in Threads : TimerPause(th)
    \/ \E th \in Threads : TimerCancel(th)
    \/ \E th \in Loops : RunTimer(th)
    \/ \E th \in Threads : StartNextTimer(th)
    \/ \E th \in Threads : TimerStatusChanged(th)
    \/ \E th \in Threads : QueueStart(th)
    \/ \E th \in Threads : QueuePause(th)
    \/ \E th \in Threads : QueueResume(th)
    \/ \E th \in Threads : QueueCancel(th)

SpecForward == InitForward /\ [][NextForward]_vars

----------------------------------------------------------------------------
(* A StepTimer of 1..QueueSize steps of positive duration on which the      *)
(* application makes the calls of a script one after the other, within the  *)
(* first second (the clock does not move)                                    *)

StepEntry == [start |-> "sstart_679", pause |-> "spause_696",
              resume |-> "sresume_712", cancel |-> "scancel_728",
              skip_step |-> "sskip_744"]

StepScripts ==
    {<<"start", "skip_step">>, <<"start", "pause", "skip_step">>,
     <<"start", "pause", "resume">>, <<"start", "pause", "cancel">>,
     <<"start", "skip_step", "start">>, <<"start", "cancel", "skip_step">>,
     <<"skip_step">>}

CallStepScript(op) ==
    /\ Scripted(StepScripts, op)
    /\ ops' = ops + 1
    /\ call' = [op |-> op, from |-> queue.status, step |-> step.current_step,
                index |-> queue.current_index]
    /\ threads' = [threads EXCEPT ![Caller] = <<Frame(StepEntry[op], 0, "", 0)>>]
    /\ UNCHANGED <<now, timers, queue, step, log, last, atPause>>

InitStepOps ==
    \E n \in 1..QueueSize :
        InitQueueOf(n, [1..QueueSize -> 1..MaxDuration], "step")

NextStepOps ==
    \/ \E op \in DOMAIN StepEntry : CallStepScript(op)
    \/ \E th \in Threads : StepTimerStart(th)
    \/ \E th \in Threads : StepTimerPauseResume(th)
    \/ \E th \in Threads : StepTimerCancel(th)
    \/ \E th \in Threads : StepTimerSkipStep(th)
    \/ \E th \in Threads : QueueStatusChanged(th)
    \/ \E th \in Threads : TimerStatusChanged(th)
    \/ Engine

SpecStepOps == InitStepOps /\ [][NextStepOps]_vars

----------------------------------------------------------------------------
(* A standalone Timer of which the application takes a snapshot with        *)
(* to_dict() and which it rebuilds, at once or later, with Timer.from_dict   *)
(* from that snapshot, whole or damaged                                      *)

Products == {[id |-> "product_1", name |-> "name_1"],
             [id |-> "product_2", name |-> "name_2"]}

Original == 1
Copy     == 2

\* the dict without one of its keys
Without(data, k) == [x \in DOMAIN data \ {k} |-> data[x]]

\* a snapshot that lacks a key from_dict reads, or whose status is no
\* TimerStatus value
Malformed(data) ==
    {Without(data, k) : k \in TimerKeys} \cup {[data EXCEPT !.status = "done"]}

\* snapshot = timer.to_dict(): kept as the result of the call
CallToDict ==
    /\ threads[Caller] = <<>>
    /\ timers[Copy] = Unborn
    /\ last.op # "to_dict"
    /\ call' = [op |-> "to_dict", from |-> timers[Original].status]
    /\ last' = [op |-> "to_dict", res |-> ~to_dict(Original).exc,
                from |-> timers[Original].status,
                exc |-> to_dict(Original).exc, seen |-> <<to_dict(Original)>>]
    /\ UNCHANGED <<now, timers, queue, step, threads, log, ops, atPause>>

\* Timer.from_dict(data, callback)
CallFromDict(data) ==
    /\ threads[Caller] = <<>>
    /\ timers[Copy] = Unborn
    /\ call' = [op |-> "from_dict", from |-> last.from, data |-> data,
                at |-> now]
    /\ threads' = [threads EXCEPT
                     ![Caller] = <<FromDictFrame(Copy, data, "user")>>]
    /\ UNCHANGED <<now, timers, queue, step, log, last, ops, atPause>>

Snapshot == last.seen[1]

InitSnapshot ==
    /\ now = 0
    /\ \E d \in 0..MaxDuration, p \in Products :
          timers = [t \in {Original, Copy} |->
                      IF t = Original THEN TimerInit(t, p.id, p.name, d, "user")
                      ELSE Unborn]
    /\ queue = NoQueue
    /\ step = NoStep
    /\ threads = [th \in Threads |-> <<>>]
    /\ log = <<>>
    /\ call = NoCall
    /\ last = NoLast
    /\ ops = 0
    /\ atPause = [t \in {Original, Copy} |-> 0]

NextSnapshot ==
    \/ \E op \in {"start", "pause", "resume", "cancel"} : CallTimer(op)
    \/ CallToDict
    \/ last.op = "to_dict" /\ ~last.exc /\ CallFromDict(Snapshot)
    \/ last.op = "to_dict" /\ ~last.exc
          /\ \E data \in Malformed(Snapshot) : CallFromDict(data)
    \/ \E th \in Threads : TimerStart(th)
    \/ \E th \in Threads : TimerPause(th)
    \/ \E th \in Threads : TimerCancel(th)
    \/ \E th \in Loops : RunTimer(th)
    \/ \E th \in Threads : FromDict(th)
    \/ TickTo(MaxSnapTime)

SpecSnapshot == InitSnapshot /\ [][NextSnapshot]_vars

----------------------------------------------------------------------------
(* Snapshots loaded in a fresh process: the application hands one snapshot, *)
(* whole or damaged, to Timer.from_dict, TimerQueue.from_dict or            *)
(* StepTimer.from_dict.  The snapshots are those of a queue of QueueSize    *)
(* timers of duration MaxDuration started at time 0 (the keys from_dict     *)
(* does not read are left out).                                              *)

TimerSnapshot(id, status, start, end, paused) ==
    [timer_id |-> id, product_id |-> "product_1", product_name |-> "name_1",
     duration |-> MaxDuration, start_time |-> start, end_time |-> end,
     paused_time |-> paused, elapsed_pause_time |-> 0, status |-> status]

Span == MaxDuration * TicksPerSec

\* timer k of a queue whose timer `cur` has status s, the timers before it
\* being COMPLETED and those after it READY
TimerSnapshotAt(k, cur, s) ==
    IF k < cur THEN TimerSnapshot(k, COMPLETED, (k - 1) * Span, k * Span, 0)
    ELSE IF k > cur THEN TimerSnapshot(k, READY, 0, 0, 0)
    ELSE TimerSnapshot(k, s, (k - 1) * Span, k * Span,
                       IF s = PAUSED THEN (k - 1) * Span + 1 ELSE 0)

QueueSnapshot(index, status, T) ==
    [name |-> "name_1", queue_id |-> 1, current_index |-> index,
     status |-> status, timers |-> T]

QueueSnapshots ==
    {QueueSnapshot(-1, READY,
                   [k \in 1..QueueSize |-> TimerSnapshotAt(k, 0, READY)]),
     QueueSnapshot(-1, COMPLETED,
                   [k \in 1..QueueSize |->
                       TimerSnapshotAt(k, QueueSize + 1, READY)])}
    \cup {QueueSnapshot(cur - 1, s,
                        [k \in 1..QueueSize |-> TimerSnapshotAt(k, cur, s)]) :
             cur \in 1..QueueSize, s \in {RUNNING, PAUSED}}
    \cup {QueueSnapshot(-1, CANCELLED,
                        [k \in 1..QueueSize |->
                            TimerSnapshotAt(k, cur, CANCELLED)]) :
             cur \in 1..QueueSize}

TimerSnapshots == {q.timers[k] : q \in QueueSnapshots, k \in 1..QueueSize}

StepSnapshots ==
    {[product_id |-> "product_1", product_name |-> "name_1",
      steps |-> [k \in 1..QueueSize |-> MaxDuration], step_timer_id |-> 1,
      current_step |-> q.current_index, timer_queue |-> q] :
        q \in QueueSnapshots}

\* a queue snapshot that lacks a key, has an unknown status value, or holds
\* such a timer snapshot
MalformedQueue(q) ==
    {Without(q, k) : k \in QueueKeys}
    \cup {[q EXCEPT !.status = "done"]}
    \cup UNION {{[q EXCEPT !.timers[k] = d] : d \in Malformed(q.timers[k])} :
                   k \in 1..QueueSize}

MalformedStep(x) ==
    {Without(x, k) : k \in StepKeys}
    \cup {[x EXCEPT !.timer_queue = q] : q \in MalformedQueue(x.timer_queue)}

\* the application calls kind.from_dict(data, callback)
CallRestore(kind, data) ==
    /\ call = NoCall
    /\ call' = [op |-> "from_dict", from |-> READY, data |-> data, at |-> now,
                kind |-> kind]
    /\ threads' = [threads EXCEPT ![Caller] =
          IF kind = "timer" THEN <<FromDictFrame(Copy, data, "user")>>
          ELSE IF kind = "queue"
          THEN <<FromDictFrameOf("qfrom_613", data, "user")>>
          ELSE <<FromDictFrameOf("sfrom_868", data, "user")>>]
    /\ UNCHANGED <<now, timers, queue, step, log, last, ops, atPause>>

InitRestore ==
    /\ now = 0
    /\ timers = [t \in TimerIds |-> Unborn]
    /\ queue = NoQueue
    /\ step = NoStep
    /\ threads = [th \in Threads |-> <<>>]
    /\ log = <<>>
    /\ call = NoCall
    /\ last = NoLast
    /\ ops = 0
    /\ atPause = [t \in TimerIds |-> 0]

NextRestore ==
    \/ \E data \in TimerSnapshots : CallRestore("timer", data)
    \/ \E x \in TimerSnapshots : \E data \in Malformed(x) :
          CallRestore("timer", data)
    \/ \E data \in QueueSnapshots : CallRestore("queue", data)
    \/ \E x \in QueueSnapshots : \E data \in MalformedQueue(x) :
          CallRestore("queue", data)
    \/ \E data \in StepSnapshots : CallRestore("step", data)
    \/ \E x \in StepSnapshots : \E data \in MalformedStep(x) :
          CallRestore("step", data)
    \/ \E th \in Threads : FromDict(th)
    \/ \E th \in Threads : QueueFromDict(th)
    \/ \E th \in Threads : StepFromDict(th)
    \/ \E th \in Threads : TimerStart(th)
    \/ \E th \in Loops : RunTimer(th)
    \/ \E th \in Threads : StartNextTimer(th)
    \/ \E th \in Threads : TimerStatusChanged(th)
    \/ \E th \in Threads : QueueStatusChanged(th)
    \/ TickTo(MaxSnapTime)

SpecRestore == InitRestore /\ [][NextRestore]_vars

----------------------------------------------------------------------------
(* A snapshot of a RUNNING queue or StepTimer loaded in a fresh process and *)
(* then left alone.  Statements take no time: the clock advances only while *)
(* every thread is idle or polling in _run_timer, and it always does so     *)
(* (up to MaxResumeTime); every thread that can take a step eventually      *)
(* takes one.                                                                *)

MaxResumeTime == QueueSize * Span + 1

RunningSnapshots == {q \in QueueSnapshots : q.status = RUNNING}

RunningStepSnapshots == {x \in StepSnapshots : x.timer_queue.status = RUNNING}

\* the thread is in the while loop of _run_timer and its timer has time left
Polling(th) ==
    /\ Len(threads[th]) = 1
    /\ Top(threads[th]).pc \in {"run_203", "run_205", "run_215"}
    /\ timers[Top(threads[th]).t].status = RUNNING
    /\ ~Expired(Top(threads[th]).t)

TimePasses ==
    /\ \A th \in Threads : threads[th] = <<>> \/ Polling(th)
    /\ TickTo(MaxResumeTime)

ThreadStep(th) ==
    \/ FromDict(th)
    \/ QueueFromDict(th)
    \/ StepFromDict(th)
    \/ TimerStart(th)
    \/ th \in Loops /\ RunTimer(th)
    \/ StartNextTimer(th)
    \/ TimerStatusChanged(th)
    \/ QueueStatusChanged(th)

NextResume ==
    \/ \E data \in RunningSnapshots : CallRestore("queue", data)
    \/ \E data \in RunningStepSnapshots : CallRestore("step", data)
    \/ \E th \in Threads : ThreadStep(th)
    \/ TimePasses

SpecResume ==
    /\ InitRestore
    /\ [][NextResume]_vars
    /\ \A th \in Threads : WF_vars(ThreadStep(th))
    /\ WF_vars(TimePasses)

----------------------------------------------------------------------------
(* Properties of the standalone Timer (checked under SpecTimer) *)

Completions(t) == {k \in 1..Len(log) : log[k] = Event("timer", t, COMPLETED)}

\* no thread is executing anything: every operation and every loop is done
Quiescent == \A th \in Threads : threads[th] = <<>>

\* C1: once a Timer's status is COMPLETED or CANCELLED, no step of start(),
\* pause(), resume(), cancel() or of the background loop changes it.
C1_TerminalIsFinal ==
    [][timers[1].status \in Terminal => timers'[1].status = timers[1].status]_vars

\* C2: callback(id, COMPLETED) is never invoked more than once, and it has been
\* invoked exactly once when a Timer that reached COMPLETED has come to rest.
C2_CompletedCallbackOnce ==
    /\ Cardinality(Completions(1)) <= 1
    /\ Quiescent /\ timers[1].status = COMPLETED => Cardinality(Completions(1)) = 1

\* C3: after cancel() has returned success on a RUNNING Timer, the CANCELLED
\* callback is the last callback delivered for that Timer.
C3_CancelledCallbackIsLast ==
    last.op = "cancel" /\ last.res /\ last.from = RUNNING
        => log # <<>> /\ log[Len(log)] = Event("timer", 1, CANCELLED)

\* C4: at most one background loop thread is alive for a Timer.
C4_AtMostOneLoop == Cardinality(LoopsOf(1)) <= 1

\* resume() was accepted on a PAUSED Timer and has set it RUNNING (line 103),
\* and the clock still reads what line 98 read
JustResumed ==
    /\ At(Caller, {"start_104", "start_107", "start_111"})
    /\ call.op = "resume" /\ call.from = PAUSED
    /\ now = timers[1].paused_time + Top(threads[Caller]).i

CallerIdle == threads[Caller] = <<>>

\* C11: get_remaining_time() is duration for a READY Timer, 0 for a COMPLETED
\* or CANCELLED one, end_time - paused_time for a PAUSED one (a value the clock
\* does not enter) and max(0, end_time - now) for a RUNNING one.  Times are in
\* ticks, the result in seconds.
C11_RemainingTimeByStatus ==
    CallerIdle =>
        LET T == timers[1]
            r == get_remaining_time(1)
        IN
        /\ T.status = READY => r = T.duration
        /\ T.status \in Terminal => r = 0
        /\ T.status = PAUSED => r * TicksPerSec = T.end_time - T.paused_time
        /\ T.status = RUNNING => r * TicksPerSec = Max(0, T.end_time - now)

\* the operation in progress was called in a status in which it is illegal
Illegal ==
    \/ call.op \in {"start", "resume"} /\ call.from \in {RUNNING} \cup Terminal
    \/ call.op = "pause" /\ call.from # RUNNING
    \/ call.op = "cancel" /\ call.from \in Terminal

\* a step of an illegal call changes no field of the Timer, starts no loop and
\* fires no callback, and the call returns failure
FailureHasNoEffect ==
    ~CallerIdle /\ Illegal /\ threads'[Caller] # threads[Caller]
        => /\ timers' = timers
           /\ log' = log
           /\ \A th \in Loops : threads'[th] = threads[th]
           /\ threads'[Caller] = <<>> => ~last'.res

\* cancel() called again after a cancel() that succeeded returns failure and
\* leaves the status CANCELLED
SecondCancelFails ==
    (/\ ~CallerIdle /\ threads'[Caller] = <<>>
     /\ call.op = "cancel" /\ last.op = "cancel" /\ last.res)
        => ~last'.res /\ timers'[1].status = CANCELLED

\* C12: start() on a RUNNING, COMPLETED or CANCELLED Timer, pause() on a Timer
\* that is not RUNNING and cancel() on a COMPLETED or CANCELLED Timer return
\* failure without any effect; two successive cancel() calls return
\* (True, False) and the status is CANCELLED after both.
C12_IllegalCallsFail == [][FailureHasNoEffect /\ SecondCancelFails]_vars

\* only start() has been called, on a Timer of duration 0
StartedZero == timers[1].duration = 0 /\ ops = 1 /\ call.op = "start"

\* the progress is exactly 100
IsHundred(p) == ~p.exc /\ p.num = 100 * p.den

\* C19: a Timer of duration 0, once started, completes on the first check of its
\* loop, without ever waiting a poll interval; callback(id, COMPLETED) is fired
\* and the progress is then 100.
C19_ZeroDurationCompletesAtOnce ==
    StartedZero =>
        /\ \A th \in Loops : ~At(th, {"run_215"})
        /\ Quiescent =>
              /\ timers[1].status = COMPLETED
              /\ Cardinality(Completions(1)) = 1
              /\ IsHundred(get_progress_percentage(1))

\* C19 witness: the started Timer of duration 0 has completed and its loop is
\* gone
C19_Witness ==
    /\ StartedZero /\ Quiescent
    /\ last.op = "start" /\ last.res
    /\ timers[1].status = COMPLETED

\* C20: get_progress_percentage() of a Timer of duration 0 is 100 in every
\* status and never raises, and to_dict() produces a snapshot.
C20_ZeroDurationProgress ==
    CallerIdle /\ timers[1].duration = 0
        => IsHundred(get_progress_percentage(1)) /\ ~to_dict(1).exc

\* the reading p is a number that does not exceed the later reading q
NotAbove(p, q) == ~p.exc /\ ~q.exc /\ p.num * q.den <= q.num * p.den

\* across a step in which the Timer is and stays RUNNING the progress does not
\* fall, and it is at most 100
ProgressGrows ==
    timers[1].status = RUNNING /\ timers'[1].status = RUNNING
        => /\ NotAbove(get_progress_percentage(1), get_progress_percentage(1)')
           /\ NotAbove(get_progress_percentage(1)', Float(100, 1))

\* C21: while a Timer stays RUNNING its successive get_progress_percentage()
\* readings do not decrease and do not exceed 100, and the reading of a
\* COMPLETED Timer is exactly 100.
C21_ProgressMonotone ==
    /\ [][ProgressGrows]_vars
    /\ [](timers[1].status = COMPLETED => IsHundred(get_progress_percentage(1)))

----------------------------------------------------------------------------
(* Properties of the undisturbed runs (SpecQueueRun, SpecStepRun) *)

\* current_index read right after a successful start() is 0
IndexZeroAfterStart ==
    last.op = "start" /\ last.res /\ last.seen # <<>> => last.seen = <<0>>

\* current_index moves from none to 0, from i to i + 1 when timer i has
\* completed, and from past the end to none
AdvancesInOrder ==
    queue'.current_index # queue.current_index =>
        \/ queue.current_index = -1 /\ queue'.current_index = 0
        \/ /\ 0 <= queue.current_index /\ queue.current_index < QLen
           /\ queue'.current_index = queue.current_index + 1
           /\ timers[queue.timers[queue.current_index + 1]].status = COMPLETED
        \/ queue.current_index = QLen /\ queue'.current_index = -1

\* a started queue that has come to rest is COMPLETED, with no current timer
\* and every timer COMPLETED
EndsCompleted ==
    Quiescent /\ last.op = "start" /\ last.res =>
        /\ queue.status = COMPLETED
        /\ queue.current_index = -1
        /\ \A k \in 1..QLen : timers[queue.timers[k]].status = COMPLETED

\* C5: a started TimerQueue left undisturbed runs its timers in index order:
\* current_index is 0 right after start(), becomes i + 1 when timer i
\* completes, and the run ends COMPLETED with current_index none and every
\* timer COMPLETED.
C5_RunsInIndexOrder ==
    /\ [](IndexZeroAfterStart /\ EndsCompleted)
    /\ [][AdvancesInOrder]_vars

IsStepEvent(e) == e.k = "step"

StepEvents == SelectSeq(log, IsStepEvent)

\* C6: the step callback of a started StepTimer left undisturbed gets
\* (0, RUNNING) first, then RUNNING events whose index never goes back nor
\* skips a step, COMPLETED only after the last step and nothing but COMPLETED
\* after it; when the run has come to rest the last event is (none, COMPLETED).
\* An event repeated is not counted as out of order.
C6_StepCallbackSequence ==
    LET E == StepEvents IN
    /\ E # <<>> => E[1] = Event("step", 0, RUNNING)
    /\ \A j \in 1..(Len(E) - 1) :
          /\ E[j].s = COMPLETED => E[j + 1].s = COMPLETED
          /\ E[j].s = RUNNING /\ E[j + 1].s = RUNNING =>
                E[j + 1].t \in {E[j].t, E[j].t + 1}
          /\ E[j].s = RUNNING /\ E[j + 1].s = COMPLETED => E[j].t = step.n - 1
    /\ Quiescent /\ last.op = "start" /\ last.res =>
          E # <<>> /\ E[Len(E)] = Event("step", -1, COMPLETED)

----------------------------------------------------------------------------
(* The TimerQueue seen from outside *)

RunningTimers == {k \in 1..QLen : timers[queue.timers[k]].status = RUNNING}

\* no queue operation and no auto-advance is in progress: the caller is idle
\* and every loop thread is polling (lines 203-205, 215), not completing its
\* timer (lines 209-210) nor in the callback that advances the queue
QueueAtRest ==
    /\ threads[Caller] = <<>>
    /\ \A th \in Loops :
          threads[th] # <<>> =>
              /\ Len(threads[th]) = 1
              /\ Top(threads[th]).pc \in {"run_203", "run_205", "run_215"}

----------------------------------------------------------------------------
(* Properties of single TimerQueue operations (checked under SpecPaused,    *)
(* SpecRestart).  Returning(op) is the step in which the application's call *)
(* of op returns; the frame of the call holds in t the timer it worked on.  *)

Returning(op) ==
    ~CallerIdle /\ threads'[Caller] = <<>> /\ call.op = op

\* the timer of the call: current_timer of lines 402, 426, 451
CallTimerOf == threads[Caller][1].t

\* start() called on a non-empty queue that was not RUNNING succeeds and leaves
\* the queue RUNNING with timer 0 the current timer, RUNNING
StartRunsFirstTimer ==
    Returning("start") /\ call.from # RUNNING /\ QLen > 0 =>
        /\ last'.res
        /\ queue'.status = RUNNING
        /\ queue'.current_index = 0
        /\ timers'[queue'.timers[1]].status = RUNNING

\* C13: TimerQueue.start() on a non-empty queue that is READY, PAUSED,
\* COMPLETED or CANCELLED sets the status RUNNING and advances to the first
\* timer: afterwards current_index is 0 and timer 0 is the RUNNING current
\* timer.
C13_StartFromAnyStatus == [][StartRunsFirstTimer]_vars

\* skip_current() on a RUNNING or PAUSED queue: the timer it skipped is
\* CANCELLED; the next one is the RUNNING current timer of a RUNNING queue, or,
\* after the last one, the queue is COMPLETED with no current timer and the
\* call returns failure
SkipCancelsAndAdvances ==
    Returning("skip_current") /\ call.from \in {RUNNING, PAUSED}
                              /\ CallTimerOf # 0 =>
        LET i == IndexOf(CallTimerOf) IN
        /\ timers'[CallTimerOf].status = CANCELLED
        /\ IF i = QLen - 1
           THEN /\ ~last'.res
                /\ queue'.status = COMPLETED
                /\ queue'.current_index = -1
           ELSE /\ last'.res
                /\ queue'.status = RUNNING
                /\ queue'.current_index = i + 1
                /\ timers'[queue'.timers[i + 2]].status = RUNNING

\* C15: skip_current() on a queue whose current timer i is RUNNING or PAUSED
\* leaves timer i CANCELLED and makes timer i + 1 the RUNNING current timer of
\* a RUNNING queue; after the last timer the queue is COMPLETED with
\* current_index none and skip_current returns failure.
C15_SkipCurrent == [][SkipCancelsAndAdvances]_vars

\* C16: once TimerQueue.cancel() has returned, and until start() is called,
\* the queue is CANCELLED, current_index is none and no timer is RUNNING.
C16_CancelIsFinal ==
    CallerIdle /\ call.op = "cancel" =>
        /\ queue.status = CANCELLED
        /\ queue.current_index = -1
        /\ RunningTimers = {}

\* pause() / resume() that succeeds was called on a RUNNING / PAUSED queue and
\* leaves the queue and its current timer PAUSED / RUNNING
PauseResumeSucceeds(op, before, after) ==
    Returning(op) /\ last'.res =>
        /\ call.from = before
        /\ queue'.status = after
        /\ CallTimerOf # 0
        /\ timers'[CallTimerOf].status = after
        /\ queue'.current_index = IndexOf(CallTimerOf)

\* pause() / resume() called in another status changes nothing and fails
PauseResumeFails(op, before) ==
    ~CallerIdle /\ call.op = op /\ call.from # before
                /\ threads'[Caller] # threads[Caller] =>
        /\ timers' = timers
        /\ queue' = queue
        /\ log' = log
        /\ threads'[Caller] = <<>> => ~last'.res

\* C17: TimerQueue.pause() succeeds only on a RUNNING queue with a RUNNING
\* current timer and leaves both PAUSED; resume() succeeds only on a PAUSED
\* queue with a PAUSED current timer and leaves both RUNNING; otherwise the
\* call fails and changes nothing.
C17_PauseResume ==
    [][/\ PauseResumeSucceeds("pause", RUNNING, PAUSED)
       /\ PauseResumeSucceeds("resume", PAUSED, RUNNING)
       /\ PauseResumeFails("pause", RUNNING)
       /\ PauseResumeFails("resume", PAUSED)]_vars

\* timers that were added to the queue and are no longer in it
Removed == {t \in 1..QueueSize : IndexOf(t) < 0}

\* C18: a timer removed by remove_timer() is not left RUNNING or PAUSED (the
\* active timer is cancelled first, so that no loop goes on counting for it);
\* a removal that empties the queue makes the queue COMPLETED.
C18_RemoveCancelsActive ==
    /\ CallerIdle => \A t \in Removed : timers[t].status \notin {RUNNING, PAUSED}
    /\ CallerIdle /\ last.op = "remove_timer" /\ last.res /\ QLen = 0
           => queue.status = COMPLETED

----------------------------------------------------------------------------
(* Properties of the restarted TimerQueue (checked under SpecRestart) *)

\* the call in progress, or the last one made, is a start() issued when the
\* queue was COMPLETED or CANCELLED
Restarted == ops >= 2 /\ call.op = "start" /\ call.from \in Terminal

\* the restart has reset the queue when it sets the status RUNNING (line 383)
ResetBeforeProceeding ==
    Restarted /\ At(Caller, {"qstart_383"}) =>
        /\ queue.current_index = -1
        /\ \A k \in 1..QLen : timers[queue.timers[k]].status = READY

\* a timer that the restarted queue starts counts its full duration
CountsFullDuration ==
    Restarted =>
        \A k \in 1..QLen :
           LET t == queue.timers[k] IN
           timers[t].status # RUNNING /\ timers'[t].status = RUNNING =>
               /\ timers[t].status = READY
               /\ timers'[t].elapsed_pause_time = 0
               /\ timers'[t].end_time =
                     timers'[t].start_time + timers[t].duration * TicksPerSec

\* the restarted queue that has come to rest is COMPLETED, every timer too
RestartEndsCompleted ==
    Restarted /\ Quiescent =>
        /\ queue.status = COMPLETED
        /\ queue.current_index = -1
        /\ \A k \in 1..QLen : timers[queue.timers[k]].status = COMPLETED

\* C14: start() on a COMPLETED or CANCELLED TimerQueue resets every timer to
\* READY and current_index to none, and the restarted queue, left undisturbed,
\* runs all its timers in order, each for its full duration, and ends
\* COMPLETED.
C14_RestartRunsAgain ==
    /\ [](ResetBeforeProceeding /\ RestartEndsCompleted)
    /\ [][Restarted => AdvancesInOrder /\ CountsFullDuration]_vars

----------------------------------------------------------------------------
(* Properties of the TimerQueue (checked under SpecQueue, SpecQueueOps) *)

\* C7: at most one Timer of a TimerQueue is RUNNING at any time.
C7_OneRunningTimer == Cardinality(RunningTimers) <= 1

\* C8: after every completed queue operation and auto-advance, currentIndex
\* is a valid index when the queue is RUNNING or PAUSED and -1 otherwise.
C8_CurrentIndexInvariant ==
    QueueAtRest =>
        IF queue.status \in {RUNNING, PAUSED}
        THEN 0 <= queue.current_index /\ queue.current_index < QLen
        ELSE queue.current_index = -1

\* C9: outside transition windows a RUNNING queue has a RUNNING current timer
\* and a PAUSED queue has a PAUSED current timer.
C9_StatusMirrorsCurrentTimer ==
    QueueAtRest /\ queue.status \in {RUNNING, PAUSED} =>
        /\ get_current_timer # 0
        /\ timers[get_current_timer].status = queue.status

----------------------------------------------------------------------------
(* Properties of snapshots (checked under SpecSnapshot) *)

\* from_dict was given the snapshot as to_dict made it
Whole == call.op = "from_dict" /\ ~Unreadable(call.data)

\* to_dict() raises in no status
ToDictSucceeds == last.op = "to_dict" => ~last.exc

\* from_dict(snapshot) returns a Timer with the snapshot's identity, product,
\* duration and status
CopyIsFaithful ==
    Returning("from_dict") /\ Whole
        => /\ ~last'.exc
           /\ timers'[Copy].timer_id = call.data.timer_id
           /\ timers'[Copy].product_id = call.data.product_id
           /\ timers'[Copy].product_name = call.data.product_name
           /\ timers'[Copy].duration = call.data.duration
           /\ timers'[Copy].status = call.data.status

\* C22: in every reachable status of a Timer, Timer.from_dict(timer.to_dict())
\* is a Timer with the timer_id, product_id, product_name, duration and status
\* the original had.
C22_RoundTrip == [](ToDictSucceeds) /\ [][CopyIsFaithful]_vars

\* from_dict was given a whole snapshot of a RUNNING Timer
RunningSnapshot == Whole /\ call.data.status = RUNNING

\* ... whose end_time was behind the clock when from_dict was called
Overdue == RunningSnapshot /\ call.data.end_time < call.at

RelaunchesOneLoop ==
    Returning("from_dict") /\ RunningSnapshot /\ call.data.end_time >= now
        => Cardinality(LoopsOf(Copy))' = 1

\* a snapshot in another status starts no loop
OtherStatusNoLoop ==
    Whole /\ call.data.status # RUNNING => LoopsOf(Copy) = {}

\* the rebuilt Timer goes from RUNNING to COMPLETED no earlier than its
\* end_time
CompletesAtEndTime ==
    /\ call.op = "from_dict"
    /\ timers[Copy].status = RUNNING /\ timers'[Copy].status = COMPLETED
    => now >= timers[Copy].end_time

\* the relaunched loop ends having left the Timer COMPLETED and fired
\* callback(id, COMPLETED) once
LoopEndsCompleted ==
    LoopsOf(Copy) # {} /\ LoopsOf(Copy)' = {}
        => /\ timers'[Copy].status = COMPLETED
           /\ Cardinality(Completions(Copy))' = 1

\* C24: from_dict on a RUNNING snapshot whose end_time has not passed launches
\* one loop for the rebuilt Timer, which becomes COMPLETED when that end_time
\* is reached and fires callback(id, COMPLETED) once; a READY, PAUSED,
\* COMPLETED or CANCELLED snapshot launches no loop.
C24_RunningSnapshotRelaunched ==
    /\ []OtherStatusNoLoop
    /\ [][RelaunchesOneLoop /\ LoopEndsCompleted /\ CompletesAtEndTime]_vars

----------------------------------------------------------------------------
(* Properties of snapshots loaded in a fresh process (checked under         *)
(* SpecRestore)                                                              *)

\* the queue snapshot lacks a key or has an unknown status value, or one of
\* its timer snapshots does
QueueDamaged(q) ==
    \/ QueueUnreadable(q)
    \/ \E k \in 1..Len(q.timers) : Unreadable(q.timers[k])

StepDamaged(x) ==
    \/ ~(StepKeys \subseteq DOMAIN x)
    \/ QueueDamaged(x.timer_queue)

\* from_dict was given a structurally invalid snapshot
Damaged ==
    /\ call.op = "from_dict"
    /\ CASE call.kind = "timer" -> Unreadable(call.data)
         [] call.kind = "queue" -> QueueDamaged(call.data)
         [] call.kind = "step" -> StepDamaged(call.data)

\* C25: Timer.from_dict, TimerQueue.from_dict and StepTimer.from_dict given a
\* snapshot that lacks a required field or has an unparseable status raise an
\* error instead of returning: no object is produced and no background loop
\* is started.
C25_MalformedSnapshot ==
    Damaged =>
        /\ \A th \in Loops : threads[th] = <<>>
        /\ CallerIdle => last.exc /\ ~last.res

----------------------------------------------------------------------------
(* Properties of the StepTimer (checked under SpecStepOps) *)

\* no call of the application is in progress and no loop thread is inside a
\* callback: every operation and every auto-advance begun has been completed
Settled == CallerIdle /\ \A th \in Loops : Len(threads[th]) <= 1

\* C26: after every completed StepTimer operation (start, pause, resume,
\* cancel, skip_step, successful or not) and after every auto-advance,
\* current_step equals the current_index of the queue.
C26_StepMirrorsIndex ==
    Settled /\ ops >= 1 => step.current_step = queue.current_index

\* how many times the event e has been delivered
Delivered(e) == Cardinality({i \in 1..Len(log) : log[i] = e})

\* the step that was active when the call was made, and the timer behind it
SkippedStep == call.step
SkippedTimer == queue.timers[call.step + 1]
HadActiveStep ==
    /\ call.step >= 0
    /\ call.step = call.index
    /\ call.from \in {RUNNING, PAUSED}

\* skip_step() on an active step that is not the last one: the step is
\* cancelled and the next one is the RUNNING step, reported to the callback
SkipStepAdvances ==
    Returning("skip_step") /\ HadActiveStep
                           /\ SkippedStep + 1 < Len(queue.timers) =>
        /\ last'.res
        /\ timers'[SkippedTimer].status = CANCELLED
        /\ step'.current_step = SkippedStep + 1
        /\ queue'.current_index = SkippedStep + 1
        /\ queue'.status = RUNNING
        /\ timers'[queue.timers[SkippedStep + 2]].status = RUNNING
        /\ log'[Len(log')] = Event("step", SkippedStep + 1, RUNNING)

\* skip_step() on the last step: no step is current, the StepTimer is
\* COMPLETED and the completion has been reported
SkipStepCompletes ==
    Returning("skip_step") /\ HadActiveStep
                           /\ SkippedStep + 1 = Len(queue.timers) =>
        /\ timers'[SkippedTimer].status = CANCELLED
        /\ step'.current_step = -1
        /\ queue'.status = COMPLETED
        /\ log'[Len(log')] = Event("step", -1, COMPLETED)

\* skip_step() with no active step fails and changes nothing
SkipStepRefused ==
    Returning("skip_step") /\ call.step = -1 /\ call.index = -1 =>
        /\ ~last'.res
        /\ step'.current_step = -1
        /\ queue'.current_index = -1
        /\ queue'.status = call.from
        /\ log' = log

\* C27: skip_step() on a StepTimer whose active step i is RUNNING or PAUSED
\* cancels step i and makes step i + 1 the RUNNING step, reported to the step
\* callback; on the last step it leaves current_step none and the StepTimer
\* COMPLETED and reports (-1, COMPLETED); with no active step it returns
\* failure and changes nothing.
C27_SkipStep ==
    [][SkipStepAdvances /\ SkipStepCompletes /\ SkipStepRefused]_vars

----------------------------------------------------------------------------
(* The completion event of the StepTimer (checked under SpecStepRun, where *)
(* the StepTimer is started once and so completes at most once)            *)

StepCompleted == Event("step", -1, COMPLETED)

\* C28: a completion of the StepTimer, by its last step timing out or by
\* skip_step() on the last step, delivers (-1, COMPLETED) to the step
\* callback exactly once.
C28_CompletionDeliveredOnce ==
    Quiescent /\ queue.status = COMPLETED => Delivered(StepCompleted) = 1

----------------------------------------------------------------------------
(* Properties of the readings of a TimerQueue (checked under SpecQueue)    *)

SameFloat(p, q) == ~p.exc /\ ~q.exc /\ p.num * q.den = q.num * p.den

\* a timer of the queue that has run to its end and is not the current one
FullyCompleted(i) ==
    /\ timers[queue.timers[i]].status = COMPLETED
    /\ i - 1 # queue.current_index

\* 100 x (durations of the fully completed timers + elapsed time of the
\* current timer) / (sum of all durations), clamped to [0, 100]; 0 for a queue
\* without timers or of total duration 0
ExpectedProgress ==
    LET total == SumTo(Durations, QLen)
        cur == get_current_timer
        done == SumTo([i \in 1..QLen |->
                          IF FullyCompleted(i) THEN Durations[i] ELSE 0], QLen)
                + (IF cur # 0
                   THEN timers[cur].duration - get_remaining_time(cur) ELSE 0)
    IN
    IF QLen = 0 \/ total = 0 THEN Float(0, 1)
    ELSE IF done >= total THEN Float(100, 1)
    ELSE IF done <= 0 THEN Float(0, 1)
    ELSE Float(done * 100, total)

\* C29: TimerQueue.get_progress_percentage() is 100 x (durations of the fully
\* completed timers + elapsed time of the current timer) / (sum of all
\* durations), clamped to [0, 100], in every state of the queue, also after
\* the queue has run all its timers to COMPLETED; it is 0 for a queue with no
\* timers or of total duration 0.
C29_QueueProgress == SameFloat(queue_get_progress_percentage, ExpectedProgress)

\* the remaining time of the timer at position i (from 0) of the queue
RemainingAt(i) == get_remaining_time(queue.timers[i + 1])

\* the remaining times of the timers strictly after the current one
RemainingAfterCurrent ==
    SumTo([i \in 1..QLen |->
              IF i - 1 > queue.current_index THEN RemainingAt(i - 1) ELSE 0],
          QLen)

\* C30: get_total_remaining_time() (and StepTimer.get_remaining_time(), which
\* delegates to it) is the remaining time of the current timer plus the
\* remaining times of all timers strictly after it; the timers before
\* current_index contribute nothing, whatever their status.
C30_TotalRemaining ==
    /\ get_total_remaining_time
          = queue_get_remaining_time + RemainingAfterCurrent
    /\ step_get_remaining_time = get_total_remaining_time

\* a timer before the current one has time left of its own, the current one
\* is running and a timer waits after it
C30_Witness ==
    /\ queue.current_index >= 1 /\ queue.current_index + 1 < QLen
    /\ RemainingAt(queue.current_index - 1) > 0
    /\ timers[get_current_timer].status = RUNNING
    /\ queue_get_remaining_time > 0
    /\ RemainingAt(queue.current_index + 1) > 0

----------------------------------------------------------------------------
(* Properties of add_timer and add_timer_from_product (checked under        *)
(* SpecAdd)                                                                 *)

AddPcs == {"add_313", "add_314", "add_328", "add_329"}

\* a step of the application inside add_timer / add_timer_from_product
AddMoves ==
    /\ ~CallerIdle
    /\ Top(threads[Caller]).pc \in AddPcs
    /\ threads'[Caller] # threads[Caller]

AddedTimer == threads[Caller][1].t

AddOnlyAppends ==
    AddMoves =>
        /\ queue'.status = queue.status
        /\ queue'.current_index = queue.current_index
        /\ Len(queue'.timers) >= QLen
        /\ \A k \in 1..QLen : /\ queue'.timers[k] = queue.timers[k]
                               /\ timers'[queue.timers[k]]
                                     = timers[queue.timers[k]]
        /\ (threads'[Caller] = <<>> =>
               /\ Len(queue'.timers) = QLen + 1
               /\ queue'.timers[QLen + 1] = AddedTimer
               /\ timers'[AddedTimer].cb = "queue")

\* C31: add_timer / add_timer_from_product, in any status of the queue,
\* appends the timer after all existing timers, binds its callback to the
\* queue's handler and leaves the queue's status, current_index and every
\* timer already present unchanged.
C31_AddTimerAppends == [][AddOnlyAppends]_vars

\* a timer made by the application has been added to a PAUSED queue that
\* holds its timers still
C31_Witness ==
    /\ CallerIdle /\ last.op = "add_timer" /\ last.from = PAUSED
    /\ queue.status = PAUSED
    /\ QLen = QueueSize + 1
    /\ timers[queue.timers[QLen]].cb = "queue"
    /\ \A k \in 1..QueueSize : queue.timers[k] = k

----------------------------------------------------------------------------
(* Properties of callbacks that raise (checked under SpecFailing)          *)

\* a thread is inside timer.start() of timer t, past the write of RUNNING and
\* before the launch of the loop (lines 104-111)
Starting(t) ==
    \E th \in Threads : \E i \in 1..Len(threads[th]) :
       /\ threads[th][i].t = t
       /\ threads[th][i].pc \in {"start_104", "start_107", "start_111"}

\* C32: an exception raised by a status callback does not block the engine: a
\* Timer that has been made RUNNING has, or is about to be given, the
\* background loop that will complete it, whether or not its RUNNING callback
\* raised inside start(), and so has the timer a queue starts on auto-advance.
C32_FailingCallbackKeepsEngine ==
    \A t \in DOMAIN timers :
       timers[t].status = RUNNING => LoopsOf(t) # {} \/ Starting(t)

----------------------------------------------------------------------------
(* Properties of a Timer operated on while its loop runs (checked under    *)
(* SpecTimer)                                                               *)

\* the edges of the Timer's state machine
StatusEdges ==
    {<<READY, RUNNING>>, <<RUNNING, PAUSED>>, <<PAUSED, RUNNING>>,
     <<RUNNING, COMPLETED>>, <<READY, CANCELLED>>, <<RUNNING, CANCELLED>>,
     <<PAUSED, CANCELLED>>}

EveryChangeIsAnEdge ==
    timers'[1].status # timers[1].status =>
        <<timers[1].status, timers'[1].status>> \in StatusEdges

\* C33: the loop's write of COMPLETED excludes pause(), resume() and
\* cancel(): it happens only when the status is RUNNING at that instant, so
\* every status change of a Timer is an edge of the state machine and a Timer
\* never goes from PAUSED directly to COMPLETED.
C33_LoopWriteIsExclusive == [][EveryChangeIsAnEdge]_vars

\* the application is inside pause() or resume() of the Timer
PausingOrResuming == ~CallerIdle /\ call.op \in {"pause", "resume"}

\* what a reader thread obtains from get_remaining_time() and
\* get_progress_percentage() when it runs now
ReadingInRange ==
    LET r == get_remaining_time(1)
        p == get_progress_percentage(1)
    IN /\ 0 <= r /\ r <= timers[1].duration
       /\ (~p.exc => 0 <= p.num /\ p.num <= 100 * p.den)

\* C34: a reader that calls get_remaining_time() or get_progress_percentage()
\* while pause() or resume() is running on the same Timer sees status and
\* timestamps as one consistent snapshot: the remaining time lies in
\* [0, duration] and the progress in [0, 100].
C34_ConsistentReads == PausingOrResuming => ReadingInRange

\* loop thread th passes the test of line 203 and begins a countdown iteration
Iterates(th) ==
    /\ threads[th] # <<>> /\ Top(threads[th]).pc = "run_203"
    /\ threads'[th] # <<>> /\ Top(threads'[th]).pc = "run_205"

\* pause() or cancel() has succeeded and no call has returned since: start()
\* launches its loop in the step in which it returns, so every loop alive was
\* running when that pause() or cancel() was called
OnlyOldLoops == last.op \in {"pause", "cancel"} /\ last.res

\* C35: the loop that is running when pause() or cancel() is called ends
\* within one poll interval and never begins another countdown iteration,
\* whatever the caller does next (a later resume() is served by a new loop).
C35_OldLoopStops == [][OnlyOldLoops => \A th \in Loops : ~Iterates(th)]_vars

----------------------------------------------------------------------------
(* Properties of the queue's handling of timer events (checked under        *)
(* SpecQueueOps)                                                            *)

\* thread th delivers a COMPLETED event to _timer_status_changed, which calls
\* _start_next_timer (lines 487-488)
EntersStartNext(th) ==
    /\ threads'[th] # threads[th]
    /\ Len(threads'[th]) = Len(threads[th]) + 2
    /\ Top(threads'[th]).pc = "next_501"
    /\ threads'[th][Len(threads'[th]) - 1].pc = "changed_491"

\* the timer the event comes from
EventTimer(th) == threads'[th][Len(threads'[th]) - 1].t

\* C36: the queue invokes "start next" only for a COMPLETED event whose timer
\* is the one at current_index; a COMPLETED event of any other timer (not
\* current, removed, or already advanced past) changes neither current_index
\* nor the status of any timer.
C36_StartNextOnlyForCurrent ==
    [][\A th \in Threads :
          EntersStartNext(th) => EventTimer(th) = get_current_timer]_vars

----------------------------------------------------------------------------
(* Properties of the events forwarded to the queue's callback (checked      *)
(* under SpecForward)                                                       *)

\* the statuses the queue's callback has received since the call was made
CarriedSinceCall ==
    {log[i].s : i \in {j \in (call.logged + 1)..Len(log) : log[j].k = "queue"}}

ForwardsFinalStatus ==
    /\ (Returning("pause") /\ last'.res => CarriedSinceCall' \subseteq {PAUSED})
    /\ (Returning("resume") /\ last'.res => CarriedSinceCall' \subseteq {RUNNING})
    /\ (Returning("cancel") => RUNNING \notin CarriedSinceCall')

\* C37: a timer event is forwarded to the queue's callback only after the
\* queue's own bookkeeping for it, so the status the callback receives is the
\* queue's status once the operation is done: during a successful pause()
\* every callback carries PAUSED, during a successful resume() RUNNING, and
\* during cancel() none carries RUNNING.
C37_ForwardAfterBookkeeping == [][ForwardsFinalStatus]_vars

----------------------------------------------------------------------------
(* Properties of a RUNNING queue or StepTimer rebuilt from its snapshot     *)
(* (checked under SpecResume)                                                *)

\* from_dict has returned the queue or StepTimer built from the snapshot
Reconstructed ==
    /\ call.op = "from_dict"
    /\ CallerIdle
    /\ last.op = "from_dict" /\ last.res

\* C38: a TimerQueue or StepTimer reconstructed from a snapshot taken while
\* it was RUNNING, and left undisturbed, eventually reaches COMPLETED, whether
\* or not the current timer's end_time had passed at reconstruction.
C38_ReconstructedCompletes == Reconstructed ~> queue.status = COMPLETED

----------------------------------------------------------------------------
(* Properties of the timestamps of a Timer that is paused and resumed       *)
(* (checked under SpecCycle)                                                 *)

\* end_time = start_time + duration + elapsed_pause_time, and so
\* end_time >= start_time
EndTimeAccounted(t) ==
    /\ timers[t].end_time = timers[t].start_time
                               + timers[t].duration * TicksPerSec
                               + timers[t].elapsed_pause_time
    /\ timers[t].end_time >= timers[t].start_time

\* resume(), accepted at line 89 on a PAUSED Timer, executes lines 92-101
ResumePassesLine92 ==
    /\ At(Caller, {"start_92"})
    /\ call.from = PAUSED
    /\ threads'[Caller] # threads[Caller]

\* paused_time is only ever set to the time at which the Timer was paused,
\* elapsed_pause_time only ever changes when a PAUSED Timer is resumed, and
\* every accepted resume adds to it the length of the pause it ends: the
\* time of the resume minus that paused_time
PausesAccumulate(t) ==
    /\ timers'[t].paused_time # timers[t].paused_time
          => timers'[t].paused_time = now
    /\ timers'[t].elapsed_pause_time # timers[t].elapsed_pause_time
          => timers[t].status = PAUSED
    /\ ResumePassesLine92
          => timers'[t].elapsed_pause_time =
                timers[t].elapsed_pause_time + (now - timers[t].paused_time)

\* C39: for a Timer in status RUNNING or PAUSED, after any number of
\* pause/resume cycles, elapsed_pause_time is the sum of the lengths of the
\* finished pauses and end_time = start_time + duration + elapsed_pause_time,
\* hence end_time >= start_time.
C39_PauseAccounting ==
    /\ [](timers[1].status \in {RUNNING, PAUSED} => EndTimeAccounted(1))
    /\ [][PausesAccumulate(1)]_vars

\* C39 witness: the second resume() has returned on a Timer that is RUNNING
\* and whose two pauses each lasted a positive time.
C39_Witness ==
    /\ CallerIdle
    /\ last.op = "resume" /\ last.res
    /\ ops = 5
    /\ timers[1].status = RUNNING
    /\ timers[1].elapsed_pause_time >= 2
    /\ timers[1].end_time > timers[1].start_time
                              + timers[1].duration * TicksPerSec

----------------------------------------------------------------------------
(* Properties of remove_timer on a queue that has advanced (checked under   *)
(* SpecPaused)                                                               *)

\* the step self.timers.pop(i) of a remove_timer whose timer lies before the
\* current one in a RUNNING or PAUSED queue
RemovesEarlierTimer ==
    /\ At(Caller, {"remove_351"})
    /\ threads'[Caller] # threads[Caller]
    /\ queue.status \in {RUNNING, PAUSED}
    /\ 0 <= Top(threads[Caller]).i
    /\ Top(threads[Caller]).i < queue.current_index
    /\ queue.current_index < QLen

\* C40: remove_timer(id) of a timer located before the current one in a
\* RUNNING or PAUSED queue leaves the same Timer current: the timer that
\* current_index designated before the removal is the one it designates
\* afterwards.
C40_RemoveKeepsCurrent ==
    [][RemovesEarlierTimer => get_current_timer' = get_current_timer]_vars

====
